---- MODULE Spec2Model ----
(***************************************************************************)
(* orb-trader: the paper broker (src/trading/paper.py), the ORB day plan   *)
(* (src/strategy/orb.py) and tick rounding (src/utils/price_utils.py).     *)
(*                                                                         *)
(* Prices are Python floats in the source.  Here a price is an integer     *)
(* number of units, UnitsPerPoint units to the point, so that 0.25 (the    *)
(* /ES tick), 0.01 (the default tick) and the midpoint of two half-tick    *)
(* prices are all exact.  The eps = 1e-12 guard of round_to_tick is below  *)
(* the resolution of the unit: round_to_tick_fine rounds a price given as  *)
(* whole units plus a few halves of eps, and the broker and the plan, whose *)
(* prices are whole units, use it with none.  abs(a - b) < 1e-9 is a = b.  *)
(*                                                                         *)
(* Not modelled: timestamps (now, entry_time, placed_time, duration_s),    *)
(* the notifier, the dollar P&L and the throttle of the unrealized-P&L     *)
(* debug log (_last_unrealized_pnl), none of which any guard reads.        *)
(***************************************************************************)
EXTENDS Integers, Sequences, FiniteSets, TLC

\* ------------------------------------------------------------------ bounds
MaxRangeSteps == 3      \* range high/low: RangeBaseSteps .. +MaxRangeSteps half ticks
MaxPriceSteps == 11     \* observed prices: 0 .. MaxPriceSteps half ticks

\* ------------------------------------------------------- price arithmetic
UnitsPerPoint == 400

\* the decimal literal n/d points, in units
Dec(n, d) == (n * UnitsPerPoint) \div d

\* eps = 1e-12 of round_to_tick, counted in halves of eps.  A price "u units
\* and h halves of eps" is the real number u + h * eps / 2, with h so small
\* that h * eps / 2 stays far below one unit.
eps == 2

\* math.floor((u + k * eps / 2) / tick_size)
floor_div(u, k, tick_size) ==
    IF k < 0 /\ u % tick_size = 0 THEN (u \div tick_size) - 1 ELSE u \div tick_size

\* math.ceil((u + k * eps / 2) / tick_size)
ceil_div(u, k, tick_size) ==
    IF u % tick_size = 0
    THEN (IF k > 0 THEN (u \div tick_size) + 1 ELSE u \div tick_size)
    ELSE (u \div tick_size) + 1

\* round((u + k * eps / 2) / tick_size), Python's round-half-to-even
round_div(u, k, tick_size) ==
    LET lo  == u \div tick_size
        rem == u - lo * tick_size
    IN  IF 2 * rem < tick_size THEN lo
        ELSE IF 2 * rem > tick_size THEN lo + 1
        ELSE IF k > 0 THEN lo + 1
        ELSE IF k < 0 THEN lo
        ELSE IF lo % 2 = 0 THEN lo ELSE lo + 1

\* round_to_tick with "up" computed as floor + 1
round_to_tick_floor_plus_one(u, h, tick_size, direction) ==
    CASE direction = "down" -> floor_div(u, h + eps, tick_size) * tick_size
      [] direction = "up"   -> (floor_div(u, h - eps, tick_size) + 1) * tick_size
      [] OTHER              -> round_div(u, h, tick_size) * tick_size

\* price_utils.round_to_tick (tick_size > 0) on the price u + h * eps / 2
round_to_tick_fine(u, h, tick_size, direction) ==
    CASE direction = "down" -> floor_div(u, h + eps, tick_size) * tick_size
      [] direction = "up"   -> ceil_div(u, h - eps, tick_size) * tick_size
      [] OTHER              -> round_div(u, h, tick_size) * tick_size

\* price_utils.round_to_tick on a price of whole units
round_to_tick(price, tick_size, direction) ==
    round_to_tick_fine(price, 0, tick_size, direction)

\* price_utils.es_tick_size
es_tick_size(symbol) == IF symbol \in {"/ES", "/MES"} THEN Dec(25, 100) ELSE Dec(1, 100)

\* the tick_size=0.25 literal of paper.py
TICK == Dec(25, 100)

\* --------------------------------------------------------------- the data
\* Optional[...]: None, or the value
None == [none |-> TRUE]
Some(x) == [val |-> x]

\* paper.Side
Side == {"LONG", "SHORT"}

\* paper.Position (entry_time left out)
Position(side, qty, entry) == [side |-> side, qty |-> qty, entry |-> entry]

\* paper.Bracket
Bracket(stop, target) == [stop |-> stop, target |-> target]

\* paper.OCOEntry as place_orb_oco builds it (placed_time left out)
OCOEntry(range_high, range_low, buffer, target_points, qty) ==
    [buy_stop      |-> round_to_tick(range_high + buffer, TICK, "up"),
     sell_stop     |-> round_to_tick(range_low - buffer, TICK, "down"),
     range_high    |-> range_high,
     range_low     |-> range_low,
     range_mid     |-> (range_high + range_low) \div 2,
     range_size    |-> range_high - range_low,
     target_points |-> target_points,
     qty           |-> qty]

\* ------------------------------------------------------------- the inputs
HalfTick == TICK \div 2
RangeBaseSteps == 4      \* the lowest range level, in half ticks
RangeLevels == {(RangeBaseSteps + k) * HalfTick : k \in 0..MaxRangeSteps}
Prices == {k * HalfTick : k \in 0..MaxPriceSteps}
Buffers == {0, TICK}
TargetPoints == {0, TICK}
Reasons == {"eod", "stop"}

VARIABLES
    position,               \* PaperBroker.position
    bracket,                \* PaperBroker.bracket
    oco,                    \* PaperBroker.oco
    trade_taken_today,      \* PaperBroker.trade_taken_today
    _breakeven_stop_active, \* PaperBroker._breakeven_stop_active
    _last_price,            \* PaperBroker._last_price
    call,                   \* the last public call and its arguments
    log,                    \* what that call logged (logger.info / logger.warning)
    args,                   \* the day plan's inputs: symbol, opening range, target, buffer
    plan,                   \* the ORBPlan build_orb_plan returns for args
    fill,                   \* per side, the FILLED record of a broker given args
    rt,                     \* a round_to_tick study: the price, the tick, the results
    sk,                     \* a should_skip_today study: the arguments and the result
    tracker,                \* the ORBTracker object
    upd,                    \* the last ORBTracker.update call: its now, replies and outcome
    loop,                   \* the locals of main's live loop
    run,                    \* the live loop observed: its clock, whether it still runs, what it did
    bt,                     \* a backtest day: the arguments of _simulate_day and its result
    sm,                     \* a backtest summary: the day results and their summary
    po                      \* a place_orb_oco study: the arguments and the pending entry

broker_vars == <<position, bracket, oco, trade_taken_today, _breakeven_stop_active,
                 _last_price, call, log>>
plan_vars == <<args, plan, fill>>
round_vars == <<rt>>
skip_vars == <<sk>>
tracker_vars == <<tracker, upd>>
loop_vars == <<loop, run>>
backtest_vars == <<bt>>
summary_vars == <<sm>>
place_vars == <<po>>
vars == <<broker_vars, plan_vars, round_vars, skip_vars, tracker_vars, loop_vars, backtest_vars, summary_vars, place_vars>>
outside_broker == <<plan_vars, round_vars, skip_vars, tracker_vars, loop_vars, backtest_vars, summary_vars, place_vars>>
outside_plan == <<broker_vars, round_vars, skip_vars, tracker_vars, loop_vars, backtest_vars, summary_vars, place_vars>>
outside_round == <<broker_vars, plan_vars, skip_vars, tracker_vars, loop_vars, backtest_vars, summary_vars, place_vars>>
outside_skip == <<broker_vars, plan_vars, round_vars, tracker_vars, loop_vars, backtest_vars, summary_vars, place_vars>>
outside_tracker == <<broker_vars, plan_vars, round_vars, skip_vars, loop_vars, backtest_vars, summary_vars, place_vars>>
outside_live == <<plan_vars, round_vars, skip_vars, backtest_vars, summary_vars, place_vars>>
outside_backtest == <<broker_vars, plan_vars, round_vars, skip_vars, tracker_vars, loop_vars, summary_vars, place_vars>>
outside_summary == <<broker_vars, plan_vars, round_vars, skip_vars, tracker_vars, loop_vars, backtest_vars, place_vars>>
outside_place == <<broker_vars, plan_vars, round_vars, skip_vars, tracker_vars, loop_vars, backtest_vars, summary_vars>>

\* the broker object (self)
self == [position |-> position, bracket |-> bracket, oco |-> oco,
         trade_taken_today |-> trade_taken_today,
         _breakeven_stop_active |-> _breakeven_stop_active,
         _last_price |-> _last_price, log |-> <<>>,
         notifier |-> "sent", raised |-> FALSE]

\* PaperBroker.__init__
InitBroker ==
    /\ position = None
    /\ bracket = None
    /\ oco = None
    /\ trade_taken_today = FALSE
    /\ _breakeven_stop_active = FALSE
    /\ _last_price = None
    /\ call = [op |-> "__init__"]
    /\ log = <<>>

\* no day plan under study
NoPlan ==
    /\ args = None
    /\ plan = None
    /\ fill = [s \in Side |-> None]

\* no rounding under study
NoRound == rt = None

\* no skip decision under study
NoSkip == sk = None

\* no tracker constructed
NoTracker == tracker = None /\ upd = None

\* no live loop started
NoLoop == loop = None /\ run = None

\* no backtest under study
NoBacktest == bt = None /\ sm = None

\* no placement under study
NoPlace == po = None

Init == InitBroker /\ NoPlan /\ NoRound /\ NoSkip /\ NoTracker /\ NoLoop /\ NoBacktest /\ NoPlace

\* _compute_stop_target with the stop at the opposite boundary whatever the range size
_compute_stop_target_boundary_stop(side, entry, o) ==
    LET target   == IF side = "LONG" THEN entry + o.target_points ELSE entry - o.target_points
        stop_raw == IF side = "LONG" THEN o.range_low ELSE o.range_high
        stop     == IF side = "LONG" THEN round_to_tick(stop_raw, TICK, "down")
                    ELSE round_to_tick(stop_raw, TICK, "up")
    IN  Bracket(stop, target)

\* PaperBroker._compute_stop_target
_compute_stop_target(side, entry, o) ==
    LET target   == IF side = "LONG" THEN entry + o.target_points ELSE entry - o.target_points
        stop_raw == IF o.range_size > o.target_points THEN o.range_mid
                    ELSE IF side = "LONG" THEN o.range_low ELSE o.range_high
        stop     == IF side = "LONG" THEN round_to_tick(stop_raw, TICK, "down")
                    ELSE round_to_tick(stop_raw, TICK, "up")
    IN  Bracket(stop, target)

\* what notifier.send_message does during a call: it returns True, returns
\* False, or raises
SendOutcomes == {"sent", "refused", "raised"}

\* the alert without the try: the exception leaves the method (b.raised)
alert_uncaught(b, name) ==
    IF b.notifier = "raised" THEN [b EXCEPT !.raised = TRUE] ELSE b

\* the best-effort alert of _open and _close: send_message inside try/except,
\* the exception logged
alert(b, name) ==
    IF b.notifier = "raised"
    THEN [b EXCEPT !.log = Append(@, [ev |-> "ALERT_FAILED", alert |-> name])]
    ELSE b

\* PaperBroker._open
_open(b, side, qty, entry) ==
    IF b.oco = None
    THEN [b EXCEPT !.trade_taken_today = TRUE,
                   !.position = Position(side, qty, entry),
                   !.bracket = None,
                   !.log = Append(@, [ev |-> "FILLED", side |-> side, entry |-> entry])]
    ELSE LET br == _compute_stop_target(side, entry, b.oco)
             b1 == alert([b EXCEPT !.trade_taken_today = TRUE,
                                   !.position = Position(side, qty, entry),
                                   !.bracket = br,
                                   !.log = Append(@, [ev |-> "FILLED", side |-> side, entry |-> entry,
                                                      stop |-> br.stop, target |-> br.target])],
                         "entry")
         IN  IF b1.raised THEN b1 ELSE [b1 EXCEPT !._breakeven_stop_active = FALSE]

\* _close that reports every stop at the entry price as a breakeven stop,
\* moved or not
_close_ignores_flag(b, price, reason) ==
    LET exit_reason ==
            IF /\ reason = "stop"
               /\ b.bracket # None
               /\ b.bracket.stop = b.position.entry
            THEN "breakeven_stop" ELSE reason
        pnl == IF b.position.side = "LONG" THEN price - b.position.entry
               ELSE b.position.entry - price
    IN  [b EXCEPT !.log = Append(@, [ev |-> "CLOSE", side |-> b.position.side,
                                     exit |-> price, pnl |-> pnl,
                                     exit_reason |-> exit_reason]),
                  !.position = None,
                  !.bracket = None,
                  !._breakeven_stop_active = FALSE]

\* _close that clears the position and leaves its bracket and breakeven flag
_close_keeps_bracket(b, price, reason) ==
    LET exit_reason ==
            IF /\ reason = "stop"
               /\ b._breakeven_stop_active
               /\ b.bracket # None
               /\ b.bracket.stop = b.position.entry
            THEN "breakeven_stop" ELSE reason
        pnl == IF b.position.side = "LONG" THEN price - b.position.entry
               ELSE b.position.entry - price
        b1 == alert([b EXCEPT !.log = Append(@, [ev |-> "CLOSE", side |-> b.position.side,
                                                 exit |-> price, pnl |-> pnl,
                                                 exit_reason |-> exit_reason])],
                    "exit")
    IN  IF b1.raised THEN b1 ELSE [b1 EXCEPT !.position = None]

\* PaperBroker._close
_close(b, price, reason) ==
    LET exit_reason ==
            IF /\ reason = "stop"
               /\ b._breakeven_stop_active
               /\ b.bracket # None
               /\ b.bracket.stop = b.position.entry
            THEN "breakeven_stop" ELSE reason
        pnl == IF b.position.side = "LONG" THEN price - b.position.entry
               ELSE b.position.entry - price
        b1 == alert([b EXCEPT !.log = Append(@, [ev |-> "CLOSE", side |-> b.position.side,
                                                 exit |-> price, pnl |-> pnl,
                                                 exit_reason |-> exit_reason])],
                    "exit")
    IN  IF b1.raised THEN b1
        ELSE [b1 EXCEPT !.position = None,
                        !.bracket = None,
                        !._breakeven_stop_active = FALSE]

\* place_orb_oco without the one-trade-per-day guard
place_orb_oco_unguarded(b, range_high, range_low, buffer, target_points, qty) ==
    LET o == OCOEntry(range_high, range_low, buffer, target_points, qty)
    IN  [b EXCEPT !.oco = o,
                  !.log = Append(@, [ev |-> "PLACED", buy_stop |-> o.buy_stop,
                                     sell_stop |-> o.sell_stop])]

\* PaperBroker.place_orb_oco
place_orb_oco(b, range_high, range_low, buffer, target_points, qty) ==
    IF b.trade_taken_today THEN [b EXCEPT !.log = Append(@, [ev |-> "REFUSED"])]
    ELSE LET o == OCOEntry(range_high, range_low, buffer, target_points, qty)
         IN  [b EXCEPT !.oco = o,
                       !.log = Append(@, [ev |-> "PLACED", buy_stop |-> o.buy_stop,
                                          sell_stop |-> o.sell_stop])]

\* PaperBroker.cancel_entry
cancel_entry(b) ==
    [b EXCEPT !.oco = None,
              !.log = IF b.oco # None THEN Append(@, [ev |-> "CANCELED"]) ELSE @]

\* reset_for_new_day that forgets the one-trade flag and the previous price
reset_for_new_day_partial(b) ==
    [b EXCEPT !.position = None, !.bracket = None, !.oco = None,
              !._breakeven_stop_active = FALSE]

\* PaperBroker.reset_for_new_day
reset_for_new_day(b) ==
    LET w1 == IF b.position # None \/ b.bracket # None
              THEN <<[ev |-> "RESET_WITH_OPEN_POSITION"]>> ELSE <<>>
        w2 == IF b.oco # None THEN <<[ev |-> "CLEARED"]>> ELSE <<>>
    IN  [b EXCEPT !.log = @ \o w1 \o w2,
                  !.position = None, !.bracket = None, !.oco = None,
                  !.trade_taken_today = FALSE, !._breakeven_stop_active = FALSE,
                  !._last_price = None]

\* the crossing fill that forgets to cancel the other leg
entry_crossing_keeps_oco(b, price) ==
    IF b.position = None /\ b.oco # None /\ b._last_price # None
    THEN IF b._last_price.val < b.oco.buy_stop /\ b.oco.buy_stop <= price
         THEN _open(b, "LONG", b.oco.qty, b.oco.buy_stop)
         ELSE IF b._last_price.val > b.oco.sell_stop /\ b.oco.sell_stop >= price
         THEN _open(b, "SHORT", b.oco.qty, b.oco.sell_stop)
         ELSE b
    ELSE b

\* on_price, "self.oco = None" after _open has returned
cancel_other_leg(b) == IF b.raised THEN b ELSE [b EXCEPT !.oco = None]

\* the entry block with a level test in place of the crossing test
entry_crossing_level_test(b, price) ==
    IF b.position = None /\ b.oco # None /\ b._last_price # None
    THEN IF b.oco.buy_stop <= price
         THEN cancel_other_leg(_open(b, "LONG", b.oco.qty, b.oco.buy_stop))
         ELSE IF b.oco.sell_stop >= price
         THEN cancel_other_leg(_open(b, "SHORT", b.oco.qty, b.oco.sell_stop))
         ELSE b
    ELSE b

\* on_price, "Entry fills (crossing logic)": paper.py 164-179
entry_crossing(b, price) ==
    IF b.position = None /\ b.oco # None /\ b._last_price # None
    THEN IF b._last_price.val < b.oco.buy_stop /\ b.oco.buy_stop <= price
         THEN cancel_other_leg(_open(b, "LONG", b.oco.qty, b.oco.buy_stop))
         ELSE IF b._last_price.val > b.oco.sell_stop /\ b.oco.sell_stop >= price
         THEN cancel_other_leg(_open(b, "SHORT", b.oco.qty, b.oco.sell_stop))
         ELSE b
    ELSE b

\* on_price, the no-cross fallback: paper.py 183-197
entry_fallback(b, price) ==
    IF b.position = None /\ b.oco # None /\ b._last_price = None
    THEN IF price >= b.oco.buy_stop
         THEN cancel_other_leg(_open(b, "LONG", b.oco.qty, b.oco.buy_stop))
         ELSE IF price <= b.oco.sell_stop
         THEN cancel_other_leg(_open(b, "SHORT", b.oco.qty, b.oco.sell_stop))
         ELSE b
    ELSE b

\* the bracket check that tests the target before the stop
manage_exits_target_first(b, price) ==
    IF b.position # None /\ b.bracket # None
    THEN IF b.position.side = "LONG"
         THEN IF price >= b.bracket.target THEN _close(b, price, "target")
              ELSE IF price <= b.bracket.stop THEN _close(b, price, "stop")
              ELSE b
         ELSE IF price <= b.bracket.target THEN _close(b, price, "target")
              ELSE IF price >= b.bracket.stop THEN _close(b, price, "stop")
              ELSE b
    ELSE b

\* on_price, "Manage exits": paper.py 200-210
manage_exits(b, price) ==
    IF b.position # None /\ b.bracket # None
    THEN IF b.position.side = "LONG"
         THEN IF price <= b.bracket.stop THEN _close(b, price, "stop")
              ELSE IF price >= b.bracket.target THEN _close(b, price, "target")
              ELSE b
         ELSE IF price >= b.bracket.stop THEN _close(b, price, "stop")
              ELSE IF price <= b.bracket.target THEN _close(b, price, "target")
              ELSE b
    ELSE b

\* on_price carries on to "Manage exits" only when the entry block returned
exits_after_entry(b, price) == IF b.raised THEN b ELSE manage_exits(b, price)

\* on_price, "self._last_price = price", reached when nothing above raised
remember_price(b, price) == IF b.raised THEN b ELSE [b EXCEPT !._last_price = Some(price)]

\* the bracket check left to the next call when this call has filled an entry
exits_unless_just_filled(b, before, price) ==
    IF before.position = None /\ b.position # None THEN b ELSE exits_after_entry(b, price)

\* on_price that does not check the bracket of a position it has just opened
on_price_exits_next_call(b, price) ==
    remember_price(exits_unless_just_filled(entry_fallback(entry_crossing(b, price), price), b, price), price)

\* PaperBroker.on_price
on_price(b, price) ==
    remember_price(exits_after_entry(entry_fallback(entry_crossing(b, price), price), price), price)

\* the breakeven move without the in-profit test
move_stop_to_breakeven_always(b, last_price) ==
    IF b.position = None \/ b.bracket = None THEN b
    ELSE IF b._breakeven_stop_active THEN b
    ELSE IF b.position.side = "LONG"
    THEN IF b.bracket.stop < b.position.entry
         THEN LET stop == round_to_tick(b.position.entry, TICK, "down")
              IN  [b EXCEPT !.bracket.stop = stop,
                            !._breakeven_stop_active = TRUE,
                            !.log = Append(@, [ev |-> "BREAKEVEN", stop |-> stop])]
         ELSE b
    ELSE IF b.bracket.stop > b.position.entry
         THEN LET stop == round_to_tick(b.position.entry, TICK, "up")
              IN  [b EXCEPT !.bracket.stop = stop,
                            !._breakeven_stop_active = TRUE,
                            !.log = Append(@, [ev |-> "BREAKEVEN", stop |-> stop])]
         ELSE b

\* PaperBroker.move_stop_to_breakeven_if_in_profit
move_stop_to_breakeven_if_in_profit(b, last_price) ==
    IF b.position = None \/ b.bracket = None THEN b
    ELSE IF b._breakeven_stop_active THEN b
    ELSE IF b.position.side = "LONG" /\ last_price > b.position.entry
    THEN IF b.bracket.stop < b.position.entry
         THEN LET stop == round_to_tick(b.position.entry, TICK, "down")
              IN  [b EXCEPT !.bracket.stop = stop,
                            !._breakeven_stop_active = TRUE,
                            !.log = Append(@, [ev |-> "BREAKEVEN", stop |-> stop])]
         ELSE b
    ELSE IF b.position.side = "SHORT" /\ last_price < b.position.entry
    THEN IF b.bracket.stop > b.position.entry
         THEN LET stop == round_to_tick(b.position.entry, TICK, "up")
              IN  [b EXCEPT !.bracket.stop = stop,
                            !._breakeven_stop_active = TRUE,
                            !.log = Append(@, [ev |-> "BREAKEVEN", stop |-> stop])]
         ELSE b
    ELSE b

\* exit_market that closes the position but leaves the pending entry
exit_market_keeps_entry(b, last_price, reason) ==
    IF b.position # None THEN _close(b, last_price, reason) ELSE b

\* PaperBroker.exit_market
exit_market(b, last_price, reason) ==
    LET b1 == IF b.position # None THEN _close(b, last_price, reason) ELSE b
    IN  IF b1.raised THEN b1
        ELSE IF b1.oco # None THEN cancel_entry(b1) ELSE b1

\* ----------------------------------------------------- reading the log
Events(l, ev) == {i \in DOMAIN l : l[i].ev = ev}
HasEvent(l, ev) == Events(l, ev) # {}
TheEvent(l, ev) == l[CHOOSE i \in Events(l, ev) : TRUE]

StopOutcomes == {"stop", "breakeven_stop"}

\* the position on which an on_price step runs its bracket check: the one
\* already open, or the one the step itself has just filled
Checked(pos, br, l) ==
    IF pos # None
    THEN [side |-> pos.side, entry |-> pos.entry, stop |-> br.stop, target |-> br.target]
    ELSE LET f == TheEvent(l, "FILLED")
         IN  [side |-> f.side, entry |-> f.entry, stop |-> f.stop, target |-> f.target]

StopHit(c, price) == IF c.side = "LONG" THEN price <= c.stop ELSE price >= c.stop
TargetHit(c, price) == IF c.side = "LONG" THEN price >= c.target ELSE price <= c.target

\* ------------------------------------------------------------ the actions
\* the outcome of send_message in a call that alerted, "unused" in one that did not
asked(l, sent) == IF HasEvent(l, "FILLED") \/ HasEvent(l, "CLOSE") THEN sent ELSE "unused"

\* one public call on the broker: the fields after it, the call and what it logged
assign(b, c) ==
    /\ position' = b.position
    /\ bracket' = b.bracket
    /\ oco' = b.oco
    /\ trade_taken_today' = b.trade_taken_today
    /\ _breakeven_stop_active' = b._breakeven_stop_active
    /\ _last_price' = b._last_price
    /\ log' = b.log
    /\ call' = c

store(b, c) == assign(b, c) /\ UNCHANGED outside_broker

PlaceOrbOco ==
    \E range_high \in RangeLevels, range_low \in RangeLevels,
       buffer \in Buffers, target_points \in TargetPoints :
        /\ range_high >= range_low
        /\ store(place_orb_oco(self, range_high, range_low, buffer, target_points, 1),
                 [op |-> "place_orb_oco", range_high |-> range_high, range_low |-> range_low,
                  buffer |-> buffer, target_points |-> target_points])

CancelEntry == store(cancel_entry(self), [op |-> "cancel_entry"])

ResetForNewDay == store(reset_for_new_day(self), [op |-> "reset_for_new_day"])

OnPrice ==
    \E price \in Prices, sent \in SendOutcomes :
        \E b \in {on_price([self EXCEPT !.notifier = sent], price)} :
            store(b, [op |-> "on_price", price |-> price, notifier |-> asked(b.log, sent),
                      raised |-> b.raised])

MoveStopToBreakeven ==
    \E last_price \in Prices :
        store(move_stop_to_breakeven_if_in_profit(self, last_price),
              [op |-> "move_stop_to_breakeven_if_in_profit", price |-> last_price])

ExitMarket ==
    \E last_price \in Prices, reason \in Reasons, sent \in SendOutcomes :
        \E b \in {exit_market([self EXCEPT !.notifier = sent], last_price, reason)} :
            store(b, [op |-> "exit_market", price |-> last_price, reason |-> reason,
                      notifier |-> asked(b.log, sent), raised |-> b.raised])

Next ==
    \/ PlaceOrbOco
    \/ CancelEntry
    \/ ResetForNewDay
    \/ OnPrice
    \/ MoveStopToBreakeven
    \/ ExitMarket

Spec == Init /\ [][Next]_vars

\* ------------------------------------------------------------ the day plan
\* orb.OpeningRange (start, end left out), with its size and mid properties
OpeningRange(high, low) == [high |-> high, low |-> low]
size(r) == r.high - r.low
mid(r) == (r.high + r.low) \div 2

\* orb.ORBPlan
ORBPlan(symbol, opening_range, long, short) ==
    [symbol |-> symbol, opening_range |-> opening_range,
     long_entry |-> long[1], long_stop |-> long[2], long_target |-> long[3],
     short_entry |-> short[1], short_stop |-> short[2], short_target |-> short[3]]

\* build_orb_plan that always stops at the opposite boundary of the range
build_orb_plan_boundary_stop(symbol, opening_range, target_points) ==
    LET long_entry     == opening_range.high
        short_entry    == opening_range.low
        long_stop_raw  == opening_range.low
        short_stop_raw == opening_range.high
        tick           == es_tick_size(symbol)
        long_stop      == IF symbol \in {"/ES", "/MES"}
                          THEN round_to_tick(long_stop_raw, tick, "down")
                          ELSE long_stop_raw
        short_stop     == IF symbol \in {"/ES", "/MES"}
                          THEN round_to_tick(short_stop_raw, tick, "up")
                          ELSE short_stop_raw
    IN  ORBPlan(symbol, opening_range,
                <<long_entry, long_stop, long_entry + target_points>>,
                <<short_entry, short_stop, short_entry - target_points>>)

\* orb.build_orb_plan
build_orb_plan(symbol, opening_range, target_points) ==
    LET rng            == size(opening_range)
        use_mid_stop   == rng > target_points
        long_entry     == opening_range.high
        short_entry    == opening_range.low
        long_stop_raw  == IF use_mid_stop THEN mid(opening_range) ELSE opening_range.low
        short_stop_raw == IF use_mid_stop THEN mid(opening_range) ELSE opening_range.high
        tick           == es_tick_size(symbol)
        long_stop      == IF symbol \in {"/ES", "/MES"}
                          THEN round_to_tick(long_stop_raw, tick, "down")
                          ELSE long_stop_raw
        short_stop     == IF symbol \in {"/ES", "/MES"}
                          THEN round_to_tick(short_stop_raw, tick, "up")
                          ELSE short_stop_raw
    IN  ORBPlan(symbol, opening_range,
                <<long_entry, long_stop, long_entry + target_points>>,
                <<short_entry, short_stop, short_entry - target_points>>)

\* a PaperBroker as __init__ leaves it
new_broker ==
    [position |-> None, bracket |-> None, oco |-> None, trade_taken_today |-> FALSE,
     _breakeven_stop_active |-> FALSE, _last_price |-> None, log |-> <<>>,
     notifier |-> "sent", raised |-> FALSE]

\* A broker driven to a fill on one side for the range of a: a price on the
\* far side of the trigger, the placement, the price at the trigger and then
\* the breakeven check one tick in profit.  The FILLED record of the fill and
\* the stop after the breakeven check (None when the fill tick closed the
\* position).
broker_fill(side, a) ==
    LET o       == OCOEntry(a.high, a.low, a.buffer, a.target_points, 1)
        before  == IF side = "LONG" THEN o.buy_stop - TICK ELSE o.sell_stop + TICK
        trigger == IF side = "LONG" THEN o.buy_stop ELSE o.sell_stop
        profit  == IF side = "LONG" THEN o.buy_stop + TICK ELSE o.sell_stop - TICK
        b1      == on_price(new_broker, before)
        b2      == place_orb_oco(b1, a.high, a.low, a.buffer, a.target_points, 1)
        b3      == on_price([b2 EXCEPT !.log = <<>>], trigger)
        b4      == move_stop_to_breakeven_if_in_profit(b3, profit)
    IN  [filled    |-> TheEvent(b3.log, "FILLED"),
         breakeven |-> IF b4.bracket # None /\ b4._breakeven_stop_active
                       THEN Some(b4.bracket.stop) ELSE None]

Symbols == {"/ES", "/MES", "SPY"}
PlanLevels == RangeLevels \cup {Dec(6850, 1), Dec(6860, 1), Dec(6880, 1)}
PlanTargets == TargetPoints \cup {Dec(20, 1)}

InitPlan ==
    /\ InitBroker
    /\ NoBacktest
    /\ NoPlace
    /\ NoLoop
    /\ NoTracker
    /\ NoRound
    /\ NoSkip
    /\ args \in [symbol : Symbols, high : PlanLevels, low : PlanLevels,
                 target_points : PlanTargets, buffer : Buffers]
    /\ args.high >= args.low
    /\ plan = None
    /\ fill = [s \in Side |-> None]

BuildOrbPlan ==
    /\ plan = None
    /\ plan' = build_orb_plan(args.symbol, OpeningRange(args.high, args.low),
                              args.target_points)
    /\ UNCHANGED <<args, fill, outside_plan>>

BrokerFill ==
    \E side \in Side :
        /\ fill[side] = None
        /\ fill' = [fill EXCEPT ![side] = broker_fill(side, args)]
        /\ UNCHANGED <<args, plan, outside_plan>>

NextPlan ==
    \/ BuildOrbPlan
    \/ BrokerFill

SpecPlan == InitPlan /\ [][NextPlan]_vars

\* --------------------------------------------------------------------- C1
\* C1: one trade per day.  With no reset_for_new_day in between: a fill sets
\* the one-trade flag, the flag stays set, and once a position has been
\* filled and closed every later call (place_orb_oco included) leaves no
\* pending OCO entry and opens no position.
C1_OneTradePerDay ==
    [][ /\ (HasEvent(log', "FILLED") => trade_taken_today')
        /\ (trade_taken_today /\ call'.op # "reset_for_new_day" => trade_taken_today')
        /\ (trade_taken_today /\ position = None /\ call'.op # "reset_for_new_day"
              => /\ oco' = None
                 /\ position' = None
                 /\ ~HasEvent(log', "FILLED")
                 /\ ~HasEvent(log', "PLACED")) ]_vars

\* a placement refused after the day's trade has been filled and closed
C1_Witness ==
    /\ call.op = "place_orb_oco"
    /\ HasEvent(log, "REFUSED")
    /\ position = None
    /\ oco = None

\* --------------------------------------------------------------------- C2
\* C2: conservative exit.  When the price of an on_price call satisfies both
\* the stop and the target condition of the bracket it checks, the position
\* is closed with a stop outcome, never with reason target.
C2_ConservativeExit ==
    [][ (/\ call'.op = "on_price"
         /\ (position # None \/ HasEvent(log', "FILLED"))
         /\ StopHit(Checked(position, bracket, log'), call'.price)
         /\ TargetHit(Checked(position, bracket, log'), call'.price))
        => /\ position' = None
           /\ HasEvent(log', "CLOSE")
           /\ TheEvent(log', "CLOSE").exit_reason \in StopOutcomes ]_vars

\* a price at the stop and at the target at once, closed as a stop
C2_Witness ==
    /\ call.op = "on_price"
    /\ HasEvent(log, "FILLED")
    /\ HasEvent(log, "CLOSE")
    /\ StopHit(Checked(None, None, log), call.price)
    /\ TargetHit(Checked(None, None, log), call.price)
    /\ TheEvent(log, "CLOSE").exit_reason = "stop"

\* --------------------------------------------------------------------- C3
\* C3: true OCO.  One on_price call opens at most one position; when it
\* fills a leg the pending entry is gone after that call; and once a trade
\* has been taken no leg fills until the session is reset.
C3_TrueOCO ==
    [][ /\ (call'.op = "on_price"
              => /\ Cardinality(Events(log', "FILLED")) <= 1
                 /\ (HasEvent(log', "FILLED") => oco # None /\ oco' = None))
        /\ (HasEvent(log', "FILLED") => call'.op = "on_price")
        /\ (trade_taken_today /\ call'.op # "reset_for_new_day"
              => ~HasEvent(log', "FILLED")) ]_vars

\* a leg has filled, the position is open and nothing is pending
C3_Witness ==
    /\ call.op = "on_price"
    /\ HasEvent(log, "FILLED")
    /\ position # None
    /\ oco = None

\* --------------------------------------------------------------------- C4
\* the level test on a pending entry o: LONG at buy_stop when price >=
\* buy_stop, otherwise SHORT at sell_stop when price <= sell_stop, otherwise
\* no fill
LevelTest(o, price, l) ==
    IF price >= o.buy_stop
    THEN /\ HasEvent(l, "FILLED")
         /\ TheEvent(l, "FILLED").side = "LONG"
         /\ TheEvent(l, "FILLED").entry = o.buy_stop
    ELSE IF price <= o.sell_stop
    THEN /\ HasEvent(l, "FILLED")
         /\ TheEvent(l, "FILLED").side = "SHORT"
         /\ TheEvent(l, "FILLED").entry = o.sell_stop
    ELSE ~HasEvent(l, "FILLED")

\* C4: on the first on_price call after an accepted place_orb_oco, whatever
\* on_price calls came before the placement, entry is detected by the level
\* test.
C4_FirstTickLevelTest ==
    [][ (/\ call.op = "place_orb_oco"
         /\ HasEvent(log, "PLACED")
         /\ call'.op = "on_price")
        => LevelTest(oco, call'.price, log') ]_vars

\* --------------------------------------------------------------------- C5
InProfit(pos, price) ==
    IF pos.side = "LONG" THEN price > pos.entry ELSE price < pos.entry

BreakevenStop(pos) ==
    IF pos.side = "LONG" THEN round_to_tick(pos.entry, TICK, "down")
    ELSE round_to_tick(pos.entry, TICK, "up")

\* C5: breakeven at most once per trade.  A move_stop_to_breakeven_if_in_profit
\* call changes the bracket only when a position is open, the price shows
\* unrealized profit and the stop has not been moved yet; it then sets the
\* stop to the entry rounded to a tick (down for LONG, up for SHORT) and
\* leaves the target; while a position stays open its bracket changes in no
\* other way, and once moved it does not change again.
C5_BreakevenOnce ==
    [][ /\ (call'.op = "move_stop_to_breakeven_if_in_profit"
              => /\ position' = position
                 /\ (bracket' # bracket
                       => /\ position # None
                          /\ ~_breakeven_stop_active
                          /\ InProfit(position, call'.price)
                          /\ bracket' = [bracket EXCEPT !.stop = BreakevenStop(position)]
                          /\ _breakeven_stop_active'))
        /\ (position # None /\ position' # None /\ bracket' # bracket
              => /\ call'.op = "move_stop_to_breakeven_if_in_profit"
                 /\ ~_breakeven_stop_active)
        /\ (position # None /\ position' # None /\ _breakeven_stop_active
              => _breakeven_stop_active' /\ bracket' = bracket) ]_vars

\* the stop has just been moved to breakeven
C5_Witness ==
    /\ call.op = "move_stop_to_breakeven_if_in_profit"
    /\ HasEvent(log, "BREAKEVEN")
    /\ position # None
    /\ _breakeven_stop_active
    /\ bracket.stop = BreakevenStop(position)

\* --------------------------------------------------------------------- C6
\* C6: exit reasons.  A position closed by its bracket stop is reported as
\* breakeven_stop when the stop had been moved to breakeven and as stop when
\* it had not; a position closed by its target is reported as target in both
\* cases.
C6_ExitReason ==
    [][ (/\ call'.op = "on_price"
         /\ (position # None \/ HasEvent(log', "FILLED")))
        => LET c     == Checked(position, bracket, log')
               moved == position # None /\ _breakeven_stop_active
           IN  /\ (StopHit(c, call'.price)
                     => /\ HasEvent(log', "CLOSE")
                        /\ TheEvent(log', "CLOSE").exit_reason =
                              IF moved THEN "breakeven_stop" ELSE "stop")
               /\ (~StopHit(c, call'.price) /\ TargetHit(c, call'.price)
                     => /\ HasEvent(log', "CLOSE")
                        /\ TheEvent(log', "CLOSE").exit_reason = "target")
               /\ (~StopHit(c, call'.price) /\ ~TargetHit(c, call'.price)
                     => ~HasEvent(log', "CLOSE")) ]_vars

\* a stop-out at the breakeven level
C6_Witness ==
    /\ call.op = "on_price"
    /\ HasEvent(log, "CLOSE")
    /\ TheEvent(log, "CLOSE").exit_reason = "breakeven_stop"
    /\ TheEvent(log, "CLOSE").pnl <= 0

\* --------------------------------------------------------------------- C7
fields == <<position, bracket, oco, trade_taken_today, _breakeven_stop_active, _last_price>>

\* exit_market: flat afterwards, an open position closed at the given price
\* and reported as reported(reason), nothing done when nothing is open or
\* pending
ExitMarketStep(reported) ==
    call'.op = "exit_market"
    => /\ position' = None
       /\ bracket' = None
       /\ oco' = None
       /\ (position # None
             => /\ HasEvent(log', "CLOSE")
                /\ TheEvent(log', "CLOSE").exit = call'.price
                /\ TheEvent(log', "CLOSE").exit_reason = reported)
       /\ (position = None /\ oco = None => fields' = fields /\ log' = <<>>)

\* C7 as stated: after exit_market there is no position and no pending
\* entry; an open position is closed at the given price with the given
\* reason; with nothing open and nothing pending the call changes nothing.
C7_ExitMarketGivenReason ==
    [][ ExitMarketStep(call'.reason) ]_vars

\* C7 amended: the same, except that the reason "stop" given for a position
\* whose stop has been moved to breakeven is reported as breakeven_stop.
C7_ExitMarketFlattens ==
    [][ ExitMarketStep(IF call'.reason = "stop" /\ _breakeven_stop_active
                       THEN "breakeven_stop" ELSE call'.reason) ]_vars

\* exit_market has closed a losing position
C7_Witness ==
    /\ call.op = "exit_market"
    /\ HasEvent(log, "CLOSE")
    /\ TheEvent(log, "CLOSE").exit = call.price
    /\ TheEvent(log, "CLOSE").pnl < 0
    /\ position = None
    /\ oco = None

\* --------------------------------------------------------------------- C8
\* C8: reset_for_new_day clears the session.  After it there is no position,
\* no bracket, no pending entry, both flags are false and no previous price
\* is remembered; a place_orb_oco that follows it is accepted; and an
\* on_price that finds a pending entry and no previous price uses the level
\* test.
C8_ResetClears ==
    /\ [](call.op = "reset_for_new_day"
            => /\ position = None
               /\ bracket = None
               /\ oco = None
               /\ ~trade_taken_today
               /\ ~_breakeven_stop_active
               /\ _last_price = None)
    /\ [][ /\ (call.op = "reset_for_new_day" /\ call'.op = "place_orb_oco"
                 => /\ HasEvent(log', "PLACED")
                    /\ oco' = OCOEntry(call'.range_high, call'.range_low,
                                       call'.buffer, call'.target_points, 1))
           /\ (oco # None /\ _last_price = None /\ call'.op = "on_price"
                 => LevelTest(oco, call'.price, log')) ]_vars

\* a reset that found an open position
C8_Witness ==
    /\ call.op = "reset_for_new_day"
    /\ HasEvent(log, "RESET_WITH_OPEN_POSITION")
    /\ position = None
    /\ ~trade_taken_today

\* --------------------------------------------------------------------- C9
\* the levels of the plan built for args, for the symbols of S: entries at
\* the range boundaries, targets at entry +/- target_points, stops at the
\* tick-rounded midpoint when the size exceeds target_points and at the
\* tick-rounded opposite boundary otherwise (long down, short up)
PlanLevels_hold(S) ==
    (plan # None /\ args.symbol \in S)
    => LET r    == OpeningRange(args.high, args.low)
           tick == es_tick_size(args.symbol)
       IN  /\ plan.long_entry = args.high
           /\ plan.short_entry = args.low
           /\ plan.long_target = args.high + args.target_points
           /\ plan.short_target = args.low - args.target_points
           /\ IF size(r) > args.target_points
              THEN /\ plan.long_stop = round_to_tick(mid(r), tick, "down")
                   /\ plan.short_stop = round_to_tick(mid(r), tick, "up")
              ELSE /\ plan.long_stop = round_to_tick(args.low, tick, "down")
                   /\ plan.short_stop = round_to_tick(args.high, tick, "up")

\* high 6860, low 6850, target 20: stops 6850 / 6860, targets 6880 / 6830
PlanExample ==
    (/\ plan # None
     /\ args.high = Dec(6860, 1) /\ args.low = Dec(6850, 1)
     /\ args.target_points = Dec(20, 1))
    => /\ plan.long_stop = Dec(6850, 1) /\ plan.short_stop = Dec(6860, 1)
       /\ plan.long_target = Dec(6880, 1) /\ plan.short_target = Dec(6830, 1)

\* C9: build_orb_plan levels, for every opening range and target_points (and
\* every symbol): entries at the range boundaries, targets at entry +/-
\* target_points, both stops at the tick-rounded midpoint when size >
\* target_points, otherwise long_stop = low rounded down and short_stop =
\* high rounded up; 6860 / 6850 / 20 gives stops 6850 / 6860 and targets
\* 6880 / 6830.
C9_PlanLevels == PlanLevels_hold(Symbols) /\ PlanExample

\* -------------------------------------------------------------------- C10
\* C10: the conservative stop rounding is the same wherever a stop is
\* computed.  For every symbol, opening range and target_points the
\* long_stop and short_stop of build_orb_plan equal the stops PaperBroker
\* attaches on a LONG and on a SHORT fill for that range, and the breakeven
\* move rounds the entry in the same directions (LONG down, SHORT up).
C10_SameStopEverywhere ==
    \A side \in Side :
        (plan # None /\ fill[side] # None)
        => /\ fill[side].filled.stop =
                 IF side = "LONG" THEN plan.long_stop ELSE plan.short_stop
           /\ (fill[side].breakeven # None
                 => fill[side].breakeven.val =
                       round_to_tick(fill[side].filled.entry, TICK,
                                     IF side = "LONG" THEN "down" ELSE "up"))

\* -------------------------------------------------------------------- C11
\* entry-to-stop distances of the plan and of the broker's fills, per side
PlanRisk(side) ==
    IF side = "LONG" THEN plan.long_entry - plan.long_stop
    ELSE plan.short_stop - plan.short_entry
FillRisk(side) ==
    IF side = "LONG" THEN fill[side].filled.entry - fill[side].filled.stop
    ELSE fill[side].filled.stop - fill[side].filled.entry

MidStopInUse == args.high - args.low > args.target_points

MaxRoundUnits == 12     \* prices 0 .. MaxRoundUnits units, besides those near a 0.25 tick
MaxSub == 3             \* and up to MaxSub halves of eps off them

Directions == {"down", "up", "nearest"}
TickSizes == {0, Dec(1, 100), Dec(25, 100)}
RoundUnits ==
    (0..MaxRoundUnits) \cup {TICK - 1, TICK, TICK + 1}
        \cup {Dec(685462, 100), Dec(685475, 100), Dec(68545, 10)}

InitRound ==
    /\ InitBroker
    /\ NoBacktest
    /\ NoPlace
    /\ NoLoop
    /\ NoTracker
    /\ NoPlan
    /\ NoSkip
    /\ rt \in [u : RoundUnits, h : (-MaxSub)..MaxSub, tick_size : TickSizes,
               out : {[d \in Directions |-> None]}]

\* round_to_tick(price, tick_size, direction): ValueError, or the rounded price
RoundToTick ==
    \E direction \in Directions :
        /\ rt.out[direction] = None
        /\ rt' = [rt EXCEPT !.out[direction] =
                     IF rt.tick_size <= 0 THEN [raised |-> "ValueError"]
                     ELSE Some(round_to_tick_fine(rt.u, rt.h, rt.tick_size, direction))]
        /\ UNCHANGED outside_round

NextRound == RoundToTick

SpecRound == InitRound /\ [][NextRound]_vars

\* ---------------------------------------------------------- skip days
\* a percentage is an integer number of 1 / PerPercent percent
PerPercent == 100
Pct(n, d) == (n * PerPercent) \div d

\* skip_days.is_fomc_day; a date is a day number, fomc_dates None or a list
is_fomc_day(day, fomc_dates) ==
    IF fomc_dates = None \/ fomc_dates.val = <<>> THEN FALSE
    ELSE \E i \in DOMAIN fomc_dates.val : fomc_dates.val[i] = day

\* v is None or v <= 0
none_or_nonpositive(v) == v = None \/ v.val <= 0

\* is_range_overlap_day that needs a common interior: touching ranges do not overlap
is_range_overlap_day_strict(orb_high, orb_low, prev_close_high, prev_close_low) ==
    IF \E v \in {orb_high, orb_low, prev_close_high, prev_close_low} : none_or_nonpositive(v)
    THEN FALSE
    ELSE LET no_overlap == \/ orb_high.val <= prev_close_low.val
                           \/ orb_low.val >= prev_close_high.val
         IN  ~no_overlap

\* skip_days.is_range_overlap_day
is_range_overlap_day(orb_high, orb_low, prev_close_high, prev_close_low) ==
    IF \E v \in {orb_high, orb_low, prev_close_high, prev_close_low} : none_or_nonpositive(v)
    THEN FALSE
    ELSE LET no_overlap == \/ orb_high.val < prev_close_low.val
                           \/ orb_low.val > prev_close_high.val
         IN  ~no_overlap

\* skip_days.is_wide_range_day; range_size and max_range_points are numbers
is_wide_range_day(range_size, max_range_points) ==
    IF range_size <= 0 THEN FALSE ELSE range_size > max_range_points

abs(x) == IF x < 0 THEN -x ELSE x

\* is_gap_fill_day that fires on a gap equal to the threshold
is_gap_fill_day_at_threshold(open_price, prev_close, threshold_pct) ==
    IF none_or_nonpositive(prev_close) THEN FALSE
    ELSE IF none_or_nonpositive(open_price) THEN FALSE
    ELSE abs(open_price.val - prev_close.val) * 100 * PerPercent >= threshold_pct * prev_close.val

\* skip_days.is_gap_fill_day: abs(open - prev_close) / prev_close * 100 > threshold_pct
is_gap_fill_day(open_price, prev_close, threshold_pct) ==
    IF none_or_nonpositive(prev_close) THEN FALSE
    ELSE IF none_or_nonpositive(open_price) THEN FALSE
    ELSE abs(open_price.val - prev_close.val) * 100 * PerPercent > threshold_pct * prev_close.val

\* should_skip_today, the configuration lookups: skip_days.py 110-120, 133
cfg_fomc_dates(settings) ==
    LET cfg == settings.skip_days
    IN  IF cfg.fomc_dates_2026 # None /\ cfg.fomc_dates_2026.val # <<>>
        THEN cfg.fomc_dates_2026 ELSE cfg.fomc_dates
cfg_threshold_pct(settings) ==
    IF settings.skip_days.gap_threshold_pct # None
    THEN settings.skip_days.gap_threshold_pct ELSE settings.gap_threshold_pct
cfg_max_range(settings) ==
    IF settings.skip_days.max_range_points # None
    THEN settings.skip_days.max_range_points.val ELSE Dec(38, 1)

SkipResult(skip, reason) == [skip |-> skip, reason |-> reason]

\* should_skip_today with the gap check before the FOMC check
should_skip_today_gap_first(day, open_price, prev_close, settings, orb_high, orb_low, prev_close_high, prev_close_low) ==
    LET threshold_pct == cfg_threshold_pct(settings)
    IN  IF /\ threshold_pct # None
           /\ is_gap_fill_day(open_price, prev_close, threshold_pct.val)
        THEN SkipResult(TRUE, "GAP_FILL_DAY")
        ELSE IF is_fomc_day(day, cfg_fomc_dates(settings))
        THEN SkipResult(TRUE, "FOMC_DAY")
        ELSE IF /\ \A v \in {orb_high, orb_low, prev_close_high, prev_close_low} : v # None
                /\ is_range_overlap_day(orb_high, orb_low, prev_close_high, prev_close_low)
        THEN SkipResult(TRUE, "RANGE_OVERLAP_DAY")
        ELSE IF /\ orb_high # None /\ orb_low # None
                /\ is_wide_range_day(orb_high.val - orb_low.val, cfg_max_range(settings))
        THEN SkipResult(TRUE, "WIDE_RANGE_DAY")
        ELSE SkipResult(FALSE, "")

\* skip_days.should_skip_today
should_skip_today(day, open_price, prev_close, settings, orb_high, orb_low, prev_close_high, prev_close_low) ==
    LET threshold_pct == cfg_threshold_pct(settings)
    IN  IF is_fomc_day(day, cfg_fomc_dates(settings))
        THEN SkipResult(TRUE, "FOMC_DAY")
        ELSE IF /\ threshold_pct # None
                /\ is_gap_fill_day(open_price, prev_close, threshold_pct.val)
        THEN SkipResult(TRUE, "GAP_FILL_DAY")
        ELSE IF /\ \A v \in {orb_high, orb_low, prev_close_high, prev_close_low} : v # None
                /\ is_range_overlap_day(orb_high, orb_low, prev_close_high, prev_close_low)
        THEN SkipResult(TRUE, "RANGE_OVERLAP_DAY")
        ELSE IF /\ orb_high # None /\ orb_low # None
                /\ is_wide_range_day(orb_high.val - orb_low.val, cfg_max_range(settings))
        THEN SkipResult(TRUE, "WIDE_RANGE_DAY")
        ELSE SkipResult(FALSE, "")

OptionalOf(S) == {None} \cup {Some(x) : x \in S}

SkipDays == {1, 2}
SkipSettings ==
    [skip_days : [fomc_dates_2026 : {None, Some(<<>>), Some(<<2>>)},
                  fomc_dates : {None, Some(<<1>>)},
                  gap_threshold_pct : {None, Some(Pct(1, 1))},
                  max_range_points : {None, Some(Dec(45, 1))}],
     gap_threshold_pct : {None, Some(Pct(2, 1))}]
SkipOpens == OptionalOf({0, Dec(101, 1), Dec(102, 1)})
SkipCloses == OptionalOf({0, Dec(100, 1)})
OrbHighs == OptionalOf({Dec(110, 1), Dec(150, 1)})
OrbLows == OptionalOf({0, Dec(100, 1), Dec(110, 1)})
PrevCloseHighs == OptionalOf({Dec(100, 1), Dec(160, 1)})
PrevCloseLows == OptionalOf({0, Dec(90, 1), Dec(155, 1)})

ordered(low, high) == low = None \/ high = None \/ low.val <= high.val

InitSkip ==
    /\ InitBroker
    /\ NoBacktest
    /\ NoPlace
    /\ NoLoop
    /\ NoTracker
    /\ NoPlan
    /\ NoRound
    /\ sk \in [day : SkipDays, open_price : SkipOpens, prev_close : SkipCloses,
               settings : SkipSettings, orb_high : OrbHighs, orb_low : OrbLows,
               prev_close_high : PrevCloseHighs, prev_close_low : PrevCloseLows,
               out : {None}]
    /\ ordered(sk.orb_low, sk.orb_high)
    /\ ordered(sk.prev_close_low, sk.prev_close_high)

ShouldSkipToday ==
    /\ sk.out = None
    /\ sk' = [sk EXCEPT !.out = should_skip_today(sk.day, sk.open_price, sk.prev_close,
                                 sk.settings, sk.orb_high, sk.orb_low,
                                 sk.prev_close_high, sk.prev_close_low)]
    /\ UNCHANGED outside_skip

NextSkip == ShouldSkipToday

SpecSkip == InitSkip /\ [][NextSkip]_vars

\* -------------------------------------------------------------------- C12
\* v <= u + k * eps / 2 and v >= u + k * eps / 2, for v in whole units
AtMost(v, u, k) == v < u \/ (v = u /\ k >= 0)
AtLeast(v, u, k) == v > u \/ (v = u /\ k <= 0)

BothRounded ==
    /\ rt.tick_size > 0
    /\ rt.out["down"] # None
    /\ rt.out["up"] # None

\* what C12 says besides the bounds: both results are multiples of the tick,
\* they differ by 0 or one tick, a price on a tick is returned unchanged,
\* and the four examples
RoundShape ==
    LET dn == rt.out["down"].val
        up == rt.out["up"].val
        t  == rt.tick_size
    IN  /\ dn % t = 0
        /\ up % t = 0
        /\ up - dn \in {0, t}
        /\ (rt.h = 0 /\ rt.u % t = 0 => dn = rt.u /\ up = rt.u)
        /\ (rt.h = 0 /\ rt.u = Dec(685462, 100) /\ t = Dec(25, 100)
              => dn = Dec(68545, 10) /\ up = Dec(685475, 100))

\* C12 as stated: for every price x and tick t > 0, round down <= x <= round
\* up, both multiples of t that differ by 0 or t, a price on a tick unchanged.
C12_RoundBrackets ==
    BothRounded
    => /\ AtMost(rt.out["down"].val, rt.u, rt.h)
       /\ AtLeast(rt.out["up"].val, rt.u, rt.h)
       /\ RoundShape

\* C12 amended: round down <= x + eps and round up >= x - eps, and round
\* down <= x <= round up unless x is less than eps away from a tick without
\* being on it (a price up to eps below a tick rounds "down" to that tick, a
\* price up to eps above a tick rounds "up" to it); the rest as stated; a
\* tick size <= 0 raises ValueError.
C12_RoundBracketsWithinEps ==
    /\ BothRounded
       => LET dn   == rt.out["down"].val
              up   == rt.out["up"].val
              near == rt.u % rt.tick_size = 0 /\ rt.h # 0 /\ rt.h <= eps /\ -rt.h <= eps
          IN  /\ AtMost(dn, rt.u, rt.h + eps)
              /\ AtLeast(up, rt.u, rt.h - eps)
              /\ (~near => AtMost(dn, rt.u, rt.h) /\ AtLeast(up, rt.u, rt.h))
              /\ (near => dn = rt.u /\ up = rt.u)
              /\ RoundShape
    /\ \A d \in Directions :
          (rt # None /\ rt.tick_size <= 0 /\ rt.out[d] # None)
          => rt.out[d] = [raised |-> "ValueError"]

\* a price half an eps below a tick, rounded "down" to the tick above it
C12_Witness ==
    /\ BothRounded
    /\ rt.h < 0
    /\ rt.u = Dec(685475, 100)
    /\ rt.out["down"].val = rt.u
    /\ rt.out["up"].val = rt.u

\* -------------------------------------------------------------------- C13
\* the four skip conditions of a decided study, each taken on its own
Decided == sk # None /\ sk.out # None
FomcHolds == is_fomc_day(sk.day, cfg_fomc_dates(sk.settings))
GapHolds ==
    /\ cfg_threshold_pct(sk.settings) # None
    /\ is_gap_fill_day(sk.open_price, sk.prev_close, cfg_threshold_pct(sk.settings).val)
OverlapHolds == is_range_overlap_day(sk.orb_high, sk.orb_low, sk.prev_close_high, sk.prev_close_low)
WideHolds ==
    /\ sk.orb_high # None /\ sk.orb_low # None
    /\ sk.orb_high.val - sk.orb_low.val > 0
    /\ sk.orb_high.val - sk.orb_low.val > cfg_max_range(sk.settings)

\* C13: should_skip_today returns skip = true with the reason of the first
\* condition that holds in the order FOMC_DAY, GAP_FILL_DAY, RANGE_OVERLAP_DAY,
\* WIDE_RANGE_DAY, whatever other conditions hold with it, and returns
\* (false, "") exactly when none of the four holds.
C13_SkipPrecedence ==
    Decided =>
        /\ FomcHolds => sk.out = SkipResult(TRUE, "FOMC_DAY")
        /\ ~FomcHolds /\ GapHolds => sk.out = SkipResult(TRUE, "GAP_FILL_DAY")
        /\ ~FomcHolds /\ ~GapHolds /\ OverlapHolds => sk.out = SkipResult(TRUE, "RANGE_OVERLAP_DAY")
        /\ ~FomcHolds /\ ~GapHolds /\ ~OverlapHolds /\ WideHolds => sk.out = SkipResult(TRUE, "WIDE_RANGE_DAY")
        /\ sk.out = SkipResult(FALSE, "") <=> ~(FomcHolds \/ GapHolds \/ OverlapHolds \/ WideHolds)

\* an FOMC date that is also a gap day, an overlap day and a wide-range day
C13_Witness ==
    /\ Decided
    /\ FomcHolds /\ GapHolds /\ OverlapHolds /\ WideHolds
    /\ sk.out.reason = "FOMC_DAY"

\* -------------------------------------------------------------------- C14
\* a decided study on a non-FOMC date with a configured threshold
GapChecked == Decided /\ ~FomcHolds /\ cfg_threshold_pct(sk.settings) # None

\* |open - prior_close| / prior_close x 100 is strictly greater than the threshold
GapExceeds ==
    /\ sk.open_price # None
    /\ abs(sk.open_price.val - sk.prev_close.val) * 100 * PerPercent
           > cfg_threshold_pct(sk.settings).val * sk.prev_close.val

\* C14 as stated: on a non-FOMC date with a configured threshold the result
\* is GAP_FILL_DAY exactly when prior_close is present and positive and the
\* gap percentage is strictly greater than the threshold.
C14_GapFillRule ==
    GapChecked =>
        (sk.out.reason = "GAP_FILL_DAY" <=>
            /\ sk.prev_close # None
            /\ sk.prev_close.val > 0
            /\ GapExceeds)

\* C14: on a non-FOMC date with a configured threshold the result is
\* GAP_FILL_DAY exactly when prior_close and open are both present and
\* positive and the gap percentage is strictly greater than the threshold;
\* the check is skipped when either price is missing or non-positive.
C14_GapFillRuleBothPrices ==
    GapChecked =>
        (sk.out.reason = "GAP_FILL_DAY" <=>
            /\ sk.prev_close # None
            /\ sk.prev_close.val > 0
            /\ sk.open_price # None
            /\ sk.open_price.val > 0
            /\ GapExceeds)

\* a gap day decided on a non-FOMC date
C14_Witness == GapChecked /\ sk.out.reason = "GAP_FILL_DAY"

\* -------------------------------------------------------------------- C15
\* a decided study in which neither FOMC_DAY nor GAP_FILL_DAY fired
OverlapChecked == Decided /\ sk.out.reason \notin {"FOMC_DAY", "GAP_FILL_DAY"}

FourValues == {sk.orb_high, sk.orb_low, sk.prev_close_high, sk.prev_close_low}

\* C15: when neither FOMC_DAY nor GAP_FILL_DAY fires the result is
\* RANGE_OVERLAP_DAY exactly when the four range values are present and
\* positive and NOT(today_high < prior_low OR today_low > prior_high); ranges
\* that touch at a boundary overlap.
C15_RangeOverlapRule ==
    OverlapChecked =>
        (sk.out.reason = "RANGE_OVERLAP_DAY" <=>
            /\ \A v \in FourValues : v # None /\ v.val > 0
            /\ ~(\/ sk.orb_high.val < sk.prev_close_low.val
                 \/ sk.orb_low.val > sk.prev_close_high.val))

\* today's low touches the prior high and the day is an overlap day
C15_Witness ==
    /\ OverlapChecked
    /\ \A v \in FourValues : v # None
    /\ sk.orb_low.val = sk.prev_close_high.val
    /\ sk.out.reason = "RANGE_OVERLAP_DAY"

\* ---------------------------------------------------------- ORBTracker
\* the clock counts minutes of one session date; the window is [OpenAt, EndAt)
OpenAt == 1
EndAt == 3
MaxNow == 5
SecondsPerMinute == 60
max_stale_s == 30

\* a retrieval that raised instead of answering, and one that was not made
Failure == [raised |-> "Exception"]
NotAsked == [asked |-> FALSE]
ValueError == [raised |-> "ValueError"]

\* ORBTracker.__init__
new_tracker ==
    [state |-> "WAITING_FOR_OPEN", range_high |-> None, range_low |-> None,
     range_size |-> None, range_midpoint |-> None, _opening_range |-> None,
     _last_quote_ts |-> None, _seeded_from_history |-> FALSE]

_compute_derived(t) ==
    IF t.range_high = None \/ t.range_low = None THEN t
    ELSE [t EXCEPT !.range_size = Some(t.range_high.val - t.range_low.val),
                   !.range_midpoint = Some((t.range_high.val + t.range_low.val) \div 2)]

\* _update_from_quote without the staleness test
_update_from_quote_any_age(t, now_e, quote) ==
    IF quote = Failure THEN t
    ELSE IF quote.price <= 0 THEN t
    ELSE LET t1 == IF quote.qts # None THEN [t EXCEPT !._last_quote_ts = quote.qts] ELSE t
             high == IF t1.range_high = None \/ quote.price > t1.range_high.val
                     THEN Some(quote.price) ELSE t1.range_high
             low == IF t1.range_low = None \/ quote.price < t1.range_low.val
                    THEN Some(quote.price) ELSE t1.range_low
         IN  _compute_derived([t1 EXCEPT !.range_high = high, !.range_low = low])

\* ORBTracker._update_from_quote; quote is Failure or [price, qts], qts in seconds
_update_from_quote(t, now_e, quote) ==
    IF quote = Failure THEN t
    ELSE IF quote.price <= 0 THEN t
    ELSE IF quote.qts # None /\ now_e * SecondsPerMinute - quote.qts.val > max_stale_s THEN t
    ELSE LET t1 == IF quote.qts # None THEN [t EXCEPT !._last_quote_ts = quote.qts] ELSE t
             high == IF t1.range_high = None \/ quote.price > t1.range_high.val
                     THEN Some(quote.price) ELSE t1.range_high
             low == IF t1.range_low = None \/ quote.price < t1.range_low.val
                    THEN Some(quote.price) ELSE t1.range_low
         IN  _compute_derived([t1 EXCEPT !.range_high = high, !.range_low = low])

\* the candles of a frame whose start lies in [from, to)
in_window(candles, from, to) == {c \in candles : from <= c.t /\ c.t < to}
max_high(window) == CHOOSE h \in {c.high : c \in window} : \A c \in window : c.high <= h
min_low(window) == CHOOSE l \in {c.low : c \in window} : \A c \in window : l <= c.low

\* ORBTracker._seed_from_history; history is Failure or [candles]
_seed_from_history(t, now_e, window_end, history) ==
    IF history = Failure THEN t
    ELSE IF history.candles = {} THEN t
    ELSE LET window == in_window(history.candles, OpenAt, window_end)
         IN  IF window = {} THEN t
             ELSE _compute_derived([t EXCEPT !.range_high = Some(max_high(window)),
                                             !.range_low = Some(min_low(window))])

\* orb.compute_opening_range: the range, or the ValueError it raises
compute_opening_range(candles) ==
    IF candles = {} THEN ValueError
    ELSE LET window == in_window(candles, OpenAt, EndAt)
         IN  IF window = {} THEN ValueError
             ELSE OpeningRange(max_high(window), min_low(window))

\* _finalize_from_history that stores the range and keeps the running high/low
_finalize_from_history_keeps_running(t, history) ==
    IF history = Failure THEN [tracker |-> t, raised |-> Some(Failure)]
    ELSE LET opening_range == compute_opening_range(history.candles)
         IN  IF opening_range = ValueError THEN [tracker |-> t, raised |-> Some(ValueError)]
             ELSE [tracker |-> _compute_derived([t EXCEPT !._opening_range = Some(opening_range)]),
                   raised |-> None]

\* ORBTracker._finalize_from_history: the tracker after it and what it raised
_finalize_from_history(t, history) ==
    IF history = Failure THEN [tracker |-> t, raised |-> Some(Failure)]
    ELSE LET opening_range == compute_opening_range(history.candles)
         IN  IF opening_range = ValueError THEN [tracker |-> t, raised |-> Some(ValueError)]
             ELSE [tracker |-> _compute_derived([t EXCEPT !._opening_range = Some(opening_range),
                                                          !.range_high = Some(opening_range.high),
                                                          !.range_low = Some(opening_range.low)]),
                   raised |-> None]

\* what one update call did: the tracker after it, the state it returned or the
\* exception it raised, and the number of history fetches it made
Outcome(t, result, fetches) == [tracker |-> t, result |-> result, fetches |-> fetches]
Returned(state) == [returned |-> state]

\* update that marks the tracker seeded only when the seed found candles
update_reseeds_after_failure(t, now_e, history, quote) ==
    IF now_e < OpenAt
    THEN Outcome([t EXCEPT !.state = "WAITING_FOR_OPEN"], Returned("WAITING_FOR_OPEN"), 0)
    ELSE IF OpenAt <= now_e /\ now_e < EndAt
    THEN LET t1 == [t EXCEPT !.state = "BUILDING_RANGE"]
             s1 == _seed_from_history(t1, now_e, now_e, history)
             t2 == IF ~t1._seeded_from_history
                   THEN [s1 EXCEPT !._seeded_from_history = (s1.range_high # None)]
                   ELSE t1
         IN  Outcome(_update_from_quote(t2, now_e, quote), Returned("BUILDING_RANGE"),
                     IF t1._seeded_from_history THEN 0 ELSE 1)
    ELSE IF t.state # "RANGE_COMPLETE"
    THEN LET f == _finalize_from_history(t, history)
         IN  IF f.raised # None THEN Outcome(f.tracker, f.raised.val, 1)
             ELSE Outcome([f.tracker EXCEPT !.state = "RANGE_COMPLETE"], Returned("RANGE_COMPLETE"), 1)
    ELSE Outcome(t, Returned("RANGE_COMPLETE"), 0)

\* ORBTracker.update
update(t, now_e, history, quote) ==
    IF now_e < OpenAt
    THEN Outcome([t EXCEPT !.state = "WAITING_FOR_OPEN"], Returned("WAITING_FOR_OPEN"), 0)
    ELSE IF OpenAt <= now_e /\ now_e < EndAt
    THEN LET t1 == [t EXCEPT !.state = "BUILDING_RANGE"]
             t2 == IF ~t1._seeded_from_history
                   THEN [_seed_from_history(t1, now_e, now_e, history) EXCEPT !._seeded_from_history = TRUE]
                   ELSE t1
         IN  Outcome(_update_from_quote(t2, now_e, quote), Returned("BUILDING_RANGE"),
                     IF t1._seeded_from_history THEN 0 ELSE 1)
    ELSE IF t.state # "RANGE_COMPLETE"
    THEN LET f == _finalize_from_history(t, history)
         IN  IF f.raised # None THEN Outcome(f.tracker, f.raised.val, 1)
             ELSE Outcome([f.tracker EXCEPT !.state = "RANGE_COMPLETE"], Returned("RANGE_COMPLETE"), 1)
    ELSE Outcome(t, Returned("RANGE_COMPLETE"), 0)

\* the retrievals an update call makes
fetches_history(t, now_e) ==
    \/ OpenAt <= now_e /\ now_e < EndAt /\ ~t._seeded_from_history
    \/ EndAt <= now_e /\ t.state # "RANGE_COMPLETE"
fetches_quote(now_e) == OpenAt <= now_e /\ now_e < EndAt

Candle(t, high, low) == [t |-> t, high |-> high, low |-> low]
Candles ==
    {Candle(OpenAt - 1, Dec(105, 1), Dec(95, 1)),
     Candle(OpenAt, Dec(101, 1), Dec(100, 1)),
     Candle(OpenAt + 1, Dec(102, 1), Dec(101, 1)),
     Candle(OpenAt + 1, Dec(100, 1), Dec(99, 1)),
     Candle(EndAt, Dec(106, 1), Dec(94, 1))}
\* a frame holds at most one candle a minute and none that starts after now
Frames(now_e) == {S \in SUBSET Candles : \A c, d \in S : c.t <= now_e /\ (c.t = d.t => c = d)}
Histories(now_e) == {Failure} \cup {[candles |-> S] : S \in Frames(now_e)}
QuotePrices == {Dec(98, 1), Dec(103, 1)}
QuoteAges == {0, max_stale_s, SecondsPerMinute}
Quotes(now_e) ==
    {Failure, [price |-> 0, qts |-> None]}
        \cup [price : QuotePrices, qts : OptionalOf({now_e * SecondsPerMinute - a : a \in QuoteAges})]

InitTracker ==
    /\ InitBroker
    /\ NoBacktest
    /\ NoPlace
    /\ NoLoop
    /\ NoPlan
    /\ NoRound
    /\ NoSkip
    /\ tracker = new_tracker
    /\ upd = [now |-> 0, history |-> NotAsked, quote |-> NotAsked, before |-> new_tracker,
              result |-> Returned("__init__"), fetches |-> 0]

\* one update call at a now that is not earlier than the last one
Update ==
    \E now_e \in upd.now .. MaxNow :
    \E history \in IF fetches_history(tracker, now_e) THEN Histories(now_e) ELSE {NotAsked} :
    \E quote \in IF fetches_quote(now_e) THEN Quotes(now_e) ELSE {NotAsked} :
        LET o == update(tracker, now_e, history, quote)
        IN  /\ tracker' = o.tracker
            /\ upd' = [now |-> now_e, history |-> history, quote |-> quote, before |-> tracker,
                       result |-> o.result, fetches |-> o.fetches]
            /\ UNCHANGED outside_tracker

NextTracker == Update

SpecTracker == InitTracker /\ [][NextTracker]_vars

\* ------------------------------------------------------- the live loop
\* session dates 1 .. MaxDays; the settings main reads once at its start
MaxDays == 2
BeCheckAt == 4
EodExitAt == 5
buffer_points == Dec(25, 100)
target_points == Dec(1, 1)
LiveSettings ==
    [skip_days |-> [fomc_dates_2026 |-> Some(<<2>>), fomc_dates |-> None,
                    gap_threshold_pct |-> Some(Pct(1, 1)), max_range_points |-> None],
     gap_threshold_pct |-> None]

\* time_utils.is_past_time on the minute of the day
is_past_time(now_t, hhmm) == now_t >= hhmm

\* main's locals before the loop
new_loop(today) ==
    [session_date |-> today, oco_placed |-> FALSE, be_done |-> FALSE, eod_done |-> FALSE,
     skip_evaluated |-> FALSE, skip_today |-> FALSE, skip_reason |-> ""]

\* what one pass of the loop works on: the locals, the tracker, the broker,
\* and the steps it has taken so far, in order
Machine(l, t, b, events) == [loop |-> l, tracker |-> t, broker |-> b, events |-> events]
did(m, event) == [m EXCEPT !.events = Append(@, event)]
Did(events, event) == \E i \in DOMAIN events : events[i] = event

\* main, the daily reset
daily_reset(m, today) ==
    IF today # m.loop.session_date
    THEN Machine(new_loop(today), new_tracker, reset_for_new_day(m.broker), Append(m.events, "NEW_DAY"))
    ELSE m

\* main, the skip evaluation; q is the quote of this pass, prev the prior closing candle
evaluate_skip(m, q, prev) ==
    LET opening_range == m.tracker._opening_range
        orb_high == IF opening_range # None THEN Some(opening_range.val.high) ELSE None
        orb_low == IF opening_range # None THEN Some(opening_range.val.low) ELSE None
        d == should_skip_today(m.loop.session_date, Some(q.open), Some(q.close), LiveSettings,
                               orb_high, orb_low, prev.high, prev.low)
    IN  did([m EXCEPT !.loop.skip_today = d.skip, !.loop.skip_reason = d.reason,
                      !.loop.skip_evaluated = TRUE,
                      !.loop.oco_placed = IF d.skip THEN TRUE ELSE @],
            "SKIP_EVALUATED")

\* main, the placement with its retry on an exception
place(m) ==
    LET opening_range == m.tracker._opening_range
    IN  IF opening_range = None THEN did(m, "PLACE_FAILED")
        ELSE did([m EXCEPT !.broker = place_orb_oco(@, opening_range.val.high, opening_range.val.low,
                                                    buffer_points, target_points, 1),
                           !.loop.oco_placed = TRUE],
                 "PLACE_CALLED")

\* the condition of the placement block without its end-of-day guards
placement_due_ignoring_eod(l, state, now_t) ==
    ~l.oco_placed /\ state = "RANGE_COMPLETE"

\* the condition of the placement block
placement_due(l, state, now_t) ==
    ~l.eod_done /\ ~l.oco_placed /\ state = "RANGE_COMPLETE" /\ ~is_past_time(now_t, EodExitAt)

\* the placement block that places whatever the skip decision says
placement_block_ignoring_skip(m, state, now_t, q, prev) ==
    IF ~placement_due(m.loop, state, now_t) THEN m
    ELSE LET m1 == IF ~m.loop.skip_evaluated THEN evaluate_skip(m, q, prev) ELSE m
         IN  place(m1)

\* main, the placement block
placement_block(m, state, now_t, q, prev) ==
    IF ~placement_due(m.loop, state, now_t) THEN m
    ELSE LET m1 == IF ~m.loop.skip_evaluated THEN evaluate_skip(m, q, prev) ELSE m
         IN  IF ~m1.loop.skip_today /\ ~m1.loop.oco_placed THEN place(m1) ELSE m1

\* the breakeven check made on every pass at or after be_check_time
breakeven_check_every_pass(m, now_t, last_price) ==
    IF is_past_time(now_t, BeCheckAt)
    THEN did([m EXCEPT !.broker = move_stop_to_breakeven_if_in_profit(@, last_price),
                       !.loop.be_done = TRUE],
             "BREAKEVEN_CHECKED")
    ELSE m

\* main, the breakeven check
breakeven_check(m, now_t, last_price) ==
    IF ~m.loop.be_done /\ is_past_time(now_t, BeCheckAt)
    THEN did([m EXCEPT !.broker = move_stop_to_breakeven_if_in_profit(@, last_price),
                       !.loop.be_done = TRUE],
             "BREAKEVEN_CHECKED")
    ELSE m

\* the end-of-day step that sets its flags and leaves the broker alone
eod_exit_flags_only(m, now_t, last_price) ==
    IF ~m.loop.eod_done /\ is_past_time(now_t, EodExitAt)
    THEN did([m EXCEPT !.loop.oco_placed = FALSE, !.loop.be_done = FALSE,
                       !.loop.eod_done = TRUE],
             "EOD_EXIT")
    ELSE m

\* main, the end-of-day exit
eod_exit(m, now_t, last_price) ==
    IF ~m.loop.eod_done /\ is_past_time(now_t, EodExitAt)
    THEN did([m EXCEPT !.broker = reset_for_new_day(exit_market(@, last_price, "eod")),
                       !.loop.oco_placed = FALSE, !.loop.be_done = FALSE,
                       !.loop.eod_done = TRUE],
             "EOD_EXIT")
    ELSE m

\* main, one pass of the while loop; an exception that leaves tracker.update ends it
iteration(m, now, q, history, quote, prev) ==
    LET m1 == daily_reset(m, now.date)
    IN  IF q = Failure THEN did(m1, "QUOTE_ERROR")
        ELSE LET o == update(m1.tracker, now.t, history, quote)
             IN  IF o.result \in {Failure, ValueError}
                 THEN did([m1 EXCEPT !.tracker = o.tracker], "CRASHED")
                 ELSE LET m2 == placement_block([m1 EXCEPT !.tracker = o.tracker],
                                                o.result.returned, now.t, q, prev)
                          m3 == [m2 EXCEPT !.broker = on_price(@, q.price)]
                      IN  eod_exit(breakeven_check(m3, now.t, q.price), now.t, q.price)

\* what the outside world answers during a pass
LivePrices == {0, Dec(99, 1), Dec(101, 1), Dec(104, 1)}
LiveOpens == {[open |-> 0, close |-> 0], [open |-> Dec(101, 1), close |-> Dec(100, 1)], [open |-> Dec(102, 1), close |-> Dec(100, 1)]}
LiveQuote(p, oc) == [price |-> p, open |-> oc.open, close |-> oc.close]
LiveCandles == {Candle(OpenAt, Dec(101, 1), Dec(100, 1)), Candle(OpenAt + 1, Dec(102, 1), Dec(101, 1))}
LiveHistories(now_t) == {Failure, [candles |-> {}], [candles |-> {c \in LiveCandles : c.t <= now_t}]}
LiveTrackerQuotes(now_t) == {Failure, [price |-> Dec(101, 1), qts |-> Some(now_t * SecondsPerMinute)]}
PrevCloseCandles ==
    {[high |-> None, low |-> None],
     [high |-> Some(Dec(101, 1)), low |-> Some(Dec(100, 1))],
     [high |-> Some(Dec(95, 1)), low |-> Some(Dec(90, 1))]}

\* the clock moves on within the date or to the next date
NextNows(now) ==
    {[date |-> now.date, t |-> t] : t \in now.t .. MaxNow}
        \cup (IF now.date < MaxDays THEN {[date |-> now.date + 1, t |-> t] : t \in 0 .. MaxNow} ELSE {})

\* this pass asks for the prior closing candle
\* and it is the only pass that reads the open and the close of its quote
asks_prev_close(m1, now_t, history, quote) ==
    LET o == update(m1.tracker, now_t, history, quote)
    IN  /\ o.result \notin {Failure, ValueError}
        /\ placement_due(m1.loop, o.result.returned, now_t)
        /\ ~m1.loop.skip_evaluated

count(events, event) == Cardinality({i \in DOMAIN events : events[i] = event})

InitLive ==
    /\ InitBroker
    /\ NoBacktest
    /\ NoPlace
    /\ NoPlan
    /\ NoRound
    /\ NoSkip
    /\ tracker = new_tracker
    /\ upd = [now |-> 0, history |-> NotAsked, quote |-> NotAsked, before |-> new_tracker,
              result |-> Returned("__init__"), fetches |-> 0]
    /\ loop = new_loop(1)
    /\ run = [now |-> [date |-> 1, t |-> 0], running |-> TRUE, events |-> <<>>, evals |-> 0, places |-> 0, fills |-> 0,
              priced_past_be |-> FALSE]

\* one pass of the live loop, while it still runs
Tick ==
    /\ run.running
    /\ \E now \in NextNows(run.now), price \in {Failure} \cup {Some(p) : p \in LivePrices} :
       \E m0 \in {Machine(loop, tracker, self, <<>>)} :
       \E m1 \in {daily_reset(m0, now.date)} :
       \E polls \in {price # Failure} :
       \E history \in IF polls /\ fetches_history(m1.tracker, now.t) THEN LiveHistories(now.t) ELSE {NotAsked} :
       \E quote \in IF polls /\ fetches_quote(now.t) THEN LiveTrackerQuotes(now.t) ELSE {NotAsked} :
       \E prev \in IF polls /\ asks_prev_close(m1, now.t, history, quote) THEN PrevCloseCandles ELSE {NotAsked} :
       \E oc \in IF prev # NotAsked THEN LiveOpens ELSE {CHOOSE c \in LiveOpens : TRUE} :
       \E q \in {IF polls THEN LiveQuote(price.val, oc) ELSE Failure} :
       \E m \in {iteration(m0, now, q, history, quote, prev)} :
       \E since \in {IF Did(m.events, "NEW_DAY") THEN [evals |-> 0, places |-> 0, fills |-> 0] ELSE [evals |-> run.evals, places |-> run.places, fills |-> run.fills]} :
           /\ loop' = m.loop
           /\ tracker' = m.tracker
           /\ upd' = IF polls
                     THEN LET o == update(m1.tracker, now.t, history, quote)
                          IN  [now |-> now.t, history |-> history, quote |-> quote, before |-> m1.tracker,
                               result |-> o.result, fetches |-> o.fetches]
                     ELSE upd
           /\ assign(m.broker, [op |-> "main", price |-> price])
           /\ run' = [now |-> now, running |-> ~Did(m.events, "CRASHED"), events |-> m.events,
                      evals |-> since.evals + count(m.events, "SKIP_EVALUATED"),
                      places |-> since.places + count(m.events, "PLACE_CALLED"),
                      fills |-> since.fills + Cardinality(Events(m.broker.log, "FILLED")),
                      priced_past_be |-> \/ polls /\ is_past_time(now.t, BeCheckAt)
                                         \/ ~Did(m.events, "NEW_DAY") /\ run.priced_past_be]
           /\ UNCHANGED outside_live

NextLive == Tick

SpecLive == InitLive /\ [][NextLive]_vars

\* -------------------------------------------------------------------- C16
\* an update call has been made
Updated == upd # None /\ upd.result # Returned("__init__")

\* the state the clock calls for
StateAt(now_e) ==
    IF now_e < OpenAt THEN "WAITING_FOR_OPEN"
    ELSE IF now_e < EndAt THEN "BUILDING_RANGE" ELSE "RANGE_COMPLETE"

StateRank(state) ==
    CASE state = "WAITING_FOR_OPEN" -> 0
      [] state = "BUILDING_RANGE" -> 1
      [] state = "RANGE_COMPLETE" -> 2

\* C16: over a non-decreasing sequence of now values on one session date every
\* update(now) yields WAITING_FOR_OPEN before the window, BUILDING_RANGE inside
\* it and RANGE_COMPLETE from its end on, and leaves the tracker in that state.
C16_StateFollowsClock ==
    Updated => upd.result = Returned(StateAt(upd.now)) /\ tracker.state = StateAt(upd.now)

\* the state never moves backwards and RANGE_COMPLETE is never left
C16_ForwardOnly ==
    [][StateRank(tracker'.state) >= StateRank(tracker.state)]_vars

\* -------------------------------------------------------------------- C17
RangeFields(t) == <<t.range_high, t.range_low, t.range_size, t.range_midpoint, t._opening_range>>

\* the range is frozen at the max high / min low of the window's candles
FrozenFrom(t, history) ==
    /\ history \notin {Failure, NotAsked}
    /\ in_window(history.candles, OpenAt, EndAt) # {}
    /\ LET window == in_window(history.candles, OpenAt, EndAt)
       IN  /\ t._opening_range = Some(OpeningRange(max_high(window), min_low(window)))
           /\ t.range_high = Some(max_high(window))
           /\ t.range_low = Some(min_low(window))

\* C17: the first update with now >= window end makes one history fetch and
\* freezes the opening range at the max high / min low of the candles in the
\* window; every later update makes no fetch and leaves the opening range and
\* the running high/low unchanged.
C17_FinalizeOnce ==
    [][upd'.now >= EndAt =>
          IF upd.now < EndAt
          THEN upd'.fetches = 1 /\ FrozenFrom(tracker', upd'.history)
          ELSE upd'.fetches = 0 /\ RangeFields(tracker') = RangeFields(tracker)]_vars

\* -------------------------------------------------------------------- C18
\* a retrieval of the last update call failed, and none of them answered
NoCandleInWindow(history) ==
    /\ history \notin {Failure, NotAsked}
    /\ upd.now >= EndAt
    /\ in_window(history.candles, OpenAt, EndAt) = {}
SomeRetrievalFailed ==
    \/ upd.history = Failure
    \/ upd.quote = Failure
    \/ NoCandleInWindow(upd.history)
NoRetrievalAnswered ==
    /\ upd.history \in {Failure, NotAsked} \/ NoCandleInWindow(upd.history)
    /\ upd.quote \in {Failure, NotAsked}

\* C18: an update call in which a quote or history retrieval fails, the final
\* recomputation and a history without a candle in the window included, still
\* returns normally, and when no retrieval of the call answered the range
\* state is the same as before the call.
C18_FailuresNeverAbort ==
    Updated /\ SomeRetrievalFailed =>
        /\ upd.result = Returned(tracker.state)
        /\ NoRetrievalAnswered => RangeFields(tracker) = RangeFields(upd.before)

\* the same for the two phases whose retrievals are wrapped in try/except
C18_BuildingFailuresCaught ==
    Updated /\ SomeRetrievalFailed /\ upd.now < EndAt =>
        /\ upd.result = Returned(tracker.state)
        /\ NoRetrievalAnswered => RangeFields(tracker) = RangeFields(upd.before)

\* -------------------------------------------------------------------- C19
\* C19: no single bad tick, a failing quote fetch, a failing history fetch or
\* a failing notification, terminates the live loop.
C19_NoBadTickEndsLoop == run.running

\* -------------------------------------------------------------------- C20
\* every a among the steps of a pass comes before every b
Precedes(events, a, b) ==
    \A i, j \in DOMAIN events : events[i] = a /\ events[j] = b => i < j

\* on the session date so far: at most one evaluation, no placement without
\* one, and after a skip decision no placement, pending entry or position
SkipVetoHolds ==
    /\ run.evals <= 1
    /\ run.places >= 1 => run.evals = 1
    /\ loop.skip_evaluated <=> run.evals = 1
    /\ loop.skip_today => run.places = 0 /\ oco = None /\ position = None

\* a pass evaluates the decision only with the range complete and before any
\* placement of the date, and a pass on the same date never changes a decision
SkipVetoStep ==
    /\ Did(run'.events, "SKIP_EVALUATED") =>
          /\ tracker'.state = "RANGE_COMPLETE"
          /\ tracker'._opening_range # None
          /\ Did(run'.events, "NEW_DAY") \/ run.places = 0
          /\ Precedes(run'.events, "SKIP_EVALUATED", "PLACE_CALLED")
    /\ loop.skip_evaluated /\ ~Did(run'.events, "NEW_DAY") =>
          /\ ~Did(run'.events, "SKIP_EVALUATED")
          /\ loop'.skip_evaluated
          /\ loop'.skip_today = loop.skip_today
          /\ loop'.skip_reason = loop.skip_reason

\* C20: on every session date the skip decision is evaluated at most once,
\* after the opening range is complete and before any place_orb_oco call, and
\* is not recomputed that day; when it says skip, place_orb_oco is not called
\* on that date and no pending entry and no position exists at any later tick.
C20_SkipVeto == []SkipVetoHolds /\ [][SkipVetoStep]_vars

\* a skip day, at a later tick whose price is beyond the buy trigger
C20_Witness ==
    /\ loop # None
    /\ loop.skip_today
    /\ run.evals = 1
    /\ ~Did(run.events, "SKIP_EVALUATED")
    /\ tracker._opening_range # None
    /\ _last_price # None
    /\ _last_price.val > tracker._opening_range.val.high + buffer_points

\* -------------------------------------------------------------------- C21
\* C21: between two date rollovers of the live loop at most one position is
\* ever opened and at most one is open at a time, although the end-of-day step
\* resets the broker's one-trade flag and clears oco_placed before the date
\* changes.
C21_OnePositionPerSession ==
    /\ run.fills <= 1
    /\ position # None => run.fills = 1
    /\ position # None => oco = None
    /\ run.places <= 1

\* a tick after the end-of-day step of a date that had its trade: the flags
\* are cleared, the price is beyond the buy trigger, nothing is pending or open
C21_Witness ==
    /\ loop # None
    /\ loop.eod_done /\ ~loop.oco_placed /\ ~trade_taken_today
    /\ run.fills = 1
    /\ ~Did(run.events, "EOD_EXIT")
    /\ tracker._opening_range # None
    /\ _last_price # None
    /\ _last_price.val > tracker._opening_range.val.high + buffer_points
    /\ position = None /\ oco = None

\* --------------------------------------------------------- the backtest
\* candles start on quarter hours counted from 09:30: the opening-range candle
\* is candle 0, the candles from 09:45 on are candles 1, 2, ...
AfterOrbAt == 1
TenOClock == 2
ES_POINT_VALUE == 50
DefaultTarget == Dec(20, 1)
MaxCandles == 3

\* _simulate_day, the settings it reads
bt_entry_buffer(settings) ==
    IF settings.entry_buffer_points = None \/ settings.entry_buffer_points.val = 0
    THEN 0 ELSE settings.entry_buffer_points.val
bt_target_points(settings) ==
    IF settings.target_points = None \/ settings.target_points.val = 0
    THEN DefaultTarget ELSE settings.target_points.val
bt_be_time(settings) ==
    IF settings.be_check_time = None THEN TenOClock ELSE settings.be_check_time.val

\* the levels _simulate_day derives from the plan
bt_levels(pl, entry_buffer, target) ==
    [long_entry |-> pl.long_entry + entry_buffer,
     short_entry |-> pl.short_entry - entry_buffer,
     long_stop |-> pl.long_stop,
     short_stop |-> pl.short_stop,
     long_target |-> pl.long_entry + entry_buffer + target,
     short_target |-> pl.short_entry - entry_buffer - target]

\* the locals of the candle loop; looping is off after a break, examined
\* counts the candles the loop has looked at
bt_locals ==
    [in_pos |-> FALSE, side |-> None, entry_ts |-> None, entry_px |-> None,
     exit_ts |-> None, exit_px |-> None, exit_reason |-> None,
     stop_px |-> None, target_px |-> None, looping |-> TRUE, examined |-> 0]

max2(a, b) == IF a >= b THEN a ELSE b
min2(a, b) == IF a <= b THEN a ELSE b

\* the breakeven move made at every candle from be_check_time on
breakeven_move_from_be_time_on(st, ts, be_time) ==
    IF st.in_pos /\ ts >= be_time
    THEN IF st.side = Some("LONG")
         THEN [st EXCEPT !.stop_px = Some(max2(st.stop_px.val, st.entry_px.val))]
         ELSE [st EXCEPT !.stop_px = Some(min2(st.stop_px.val, st.entry_px.val))]
    ELSE st

\* the candle loop, the breakeven move
breakeven_move(st, ts, be_time) ==
    IF st.in_pos /\ ts = be_time
    THEN IF st.side = Some("LONG")
         THEN [st EXCEPT !.stop_px = Some(max2(st.stop_px.val, st.entry_px.val))]
         ELSE [st EXCEPT !.stop_px = Some(min2(st.stop_px.val, st.entry_px.val))]
    ELSE st

bt_enter(st, ts, side, entry, stop, target) ==
    [st EXCEPT !.in_pos = TRUE, !.side = Some(side), !.entry_ts = Some(ts),
               !.entry_px = Some(entry), !.stop_px = Some(stop), !.target_px = Some(target)]

\* the entry detection that takes the LONG side of a candle touching both levels
detect_entry_long_first(st, ts, candle, lv) ==
    LET long_hit == candle.high >= lv.long_entry
        short_hit == candle.low <= lv.short_entry
    IN  IF long_hit THEN bt_enter(st, ts, "LONG", lv.long_entry, lv.long_stop, lv.long_target)
        ELSE IF short_hit THEN bt_enter(st, ts, "SHORT", lv.short_entry, lv.short_stop, lv.short_target)
        ELSE st

\* the candle loop without a position: the entry detection
detect_entry(st, ts, candle, lv) ==
    LET long_hit == candle.high >= lv.long_entry
        short_hit == candle.low <= lv.short_entry
    IN  IF long_hit /\ short_hit
        THEN [st EXCEPT !.exit_reason = Some("AMBIGUOUS_BOTH_BREAKOUTS"), !.looping = FALSE]
        ELSE IF long_hit THEN bt_enter(st, ts, "LONG", lv.long_entry, lv.long_stop, lv.long_target)
        ELSE IF short_hit THEN bt_enter(st, ts, "SHORT", lv.short_entry, lv.short_stop, lv.short_target)
        ELSE st

bt_exit(st, ts, price, reason) ==
    [st EXCEPT !.exit_ts = Some(ts), !.exit_px = Some(price), !.exit_reason = Some(reason),
               !.in_pos = FALSE, !.looping = FALSE]

\* the exit handling that books a candle touching both levels at the target
manage_position_target_first(st, ts, candle) ==
    LET long == st.side = Some("LONG")
        stop_hit == IF long THEN candle.low <= st.stop_px.val ELSE candle.high >= st.stop_px.val
        target_hit == IF long THEN candle.high >= st.target_px.val ELSE candle.low <= st.target_px.val
    IN  IF target_hit THEN bt_exit(st, ts, st.target_px.val, "TARGET")
        ELSE IF stop_hit THEN bt_exit(st, ts, st.stop_px.val, "STOP")
        ELSE st

\* the candle loop with a position: stop and target
manage_position(st, ts, candle) ==
    LET long == st.side = Some("LONG")
        stop_hit == IF long THEN candle.low <= st.stop_px.val ELSE candle.high >= st.stop_px.val
        target_hit == IF long THEN candle.high >= st.target_px.val ELSE candle.low <= st.target_px.val
    IN  IF stop_hit /\ target_hit THEN bt_exit(st, ts, st.stop_px.val, "STOP_AND_TARGET_SAME_CANDLE")
        ELSE IF stop_hit THEN bt_exit(st, ts, st.stop_px.val, "STOP")
        ELSE IF target_hit THEN bt_exit(st, ts, st.target_px.val, "TARGET")
        ELSE st

\* the pass that tests stop and target on the candle that filled the entry
candle_step_tests_entry_candle(st, candle, lv, be_time) ==
    LET st1 == breakeven_move([st EXCEPT !.examined = @ + 1], candle.ts, be_time)
        st2 == IF ~st1.in_pos THEN detect_entry(st1, candle.ts, candle, lv) ELSE st1
    IN  IF st2.in_pos THEN manage_position(st2, candle.ts, candle) ELSE st2

\* one pass of the candle loop
candle_step(st, candle, lv, be_time) ==
    LET st1 == breakeven_move([st EXCEPT !.examined = @ + 1], candle.ts, be_time)
    IN  IF ~st1.in_pos THEN detect_entry(st1, candle.ts, candle, lv)
        ELSE manage_position(st1, candle.ts, candle)

RECURSIVE candle_loop(_, _, _, _, _)
candle_loop(st, candles, i, lv, be_time) ==
    IF i > Len(candles) \/ ~st.looping THEN st
    ELSE candle_loop(candle_step(st, candles[i], lv, be_time), candles, i + 1, lv, be_time)

\* the day result dictionaries; a key a dictionary lacks is None here, and
\* examined is not a key of the source
DayResult(d, skipped, skip_reason, orb, prev_close, levels, trade, examined) ==
    [date |-> d, skipped |-> skipped, skip_reason |-> skip_reason, orb |-> orb,
     prev_close |-> prev_close, plan |-> levels, trade |-> trade, examined |-> examined]

Trade(st, points) ==
    [side |-> st.side, entry_time |-> st.entry_ts, entry_price |-> st.entry_px,
     exit_time |-> st.exit_ts, exit_price |-> st.exit_px, exit_reason |-> st.exit_reason,
     points |-> points, dollars |-> points * ES_POINT_VALUE]

\* the end-of-day close booked at the last candle's opening price
simulate_trading_eod_at_open(d, orb, prev_close, after, settings, symbol) ==
    LET target == bt_target_points(settings)
        pl == build_orb_plan(symbol, OpeningRange(orb.high, orb.low), target)
        lv == bt_levels(pl, bt_entry_buffer(settings), target)
        st == candle_loop(bt_locals, after, 1, lv, bt_be_time(settings))
    IN  IF st.exit_reason = Some("AMBIGUOUS_BOTH_BREAKOUTS")
        THEN DayResult(d, TRUE, "AMBIGUOUS_BOTH_BREAKOUTS", Some(orb), prev_close, Some(lv), None, st.examined)
        ELSE LET st1 == IF st.in_pos
                        THEN [st EXCEPT !.exit_ts = Some(after[Len(after)].ts),
                                        !.exit_px = Some(after[Len(after)].open),
                                        !.exit_reason = Some("EOD")]
                        ELSE st
                 traded == st1.entry_ts # None /\ st1.exit_ts # None
                 points == IF ~traded THEN 0
                           ELSE IF st1.side = Some("LONG") THEN st1.exit_px.val - st1.entry_px.val
                           ELSE st1.entry_px.val - st1.exit_px.val
             IN  DayResult(d, FALSE, "", Some(orb), prev_close, Some(lv), Some(Trade(st1, points)), st1.examined)

\* _simulate_day after the skip decision
simulate_trading(d, orb, prev_close, after, settings, symbol) ==
    LET target == bt_target_points(settings)
        pl == build_orb_plan(symbol, OpeningRange(orb.high, orb.low), target)
        lv == bt_levels(pl, bt_entry_buffer(settings), target)
        st == candle_loop(bt_locals, after, 1, lv, bt_be_time(settings))
    IN  IF st.exit_reason = Some("AMBIGUOUS_BOTH_BREAKOUTS")
        THEN DayResult(d, TRUE, "AMBIGUOUS_BOTH_BREAKOUTS", Some(orb), prev_close, Some(lv), None, st.examined)
        ELSE LET st1 == IF st.in_pos
                        THEN [st EXCEPT !.exit_ts = Some(after[Len(after)].ts),
                                        !.exit_px = Some(after[Len(after)].close),
                                        !.exit_reason = Some("EOD")]
                        ELSE st
                 traded == st1.entry_ts # None /\ st1.exit_ts # None
                 points == IF ~traded THEN 0
                           ELSE IF st1.side = Some("LONG") THEN st1.exit_px.val - st1.entry_px.val
                           ELSE st1.entry_px.val - st1.exit_px.val
             IN  DayResult(d, FALSE, "", Some(orb), prev_close, Some(lv), Some(Trade(st1, points)), st1.examined)

\* backtest._simulate_day; orb_candle and prev_close_candle are None when missing
_simulate_day(d, orb_candle, after, prev_close_candle, settings, symbol) ==
    IF orb_candle = None
    THEN DayResult(d, TRUE, "MISSING_ORB_CANDLE", None, None, None, None, 0)
    ELSE LET orb == [high |-> orb_candle.val.high, low |-> orb_candle.val.low, open |-> orb_candle.val.open]
             prev_close == IF prev_close_candle # None THEN Some(prev_close_candle.val.close) ELSE None
             prev_close_high == IF prev_close_candle # None THEN Some(prev_close_candle.val.high) ELSE None
             prev_close_low == IF prev_close_candle # None THEN Some(prev_close_candle.val.low) ELSE None
             decision == should_skip_today(d, Some(orb.open), prev_close, settings,
                                           Some(orb.high), Some(orb.low), prev_close_high, prev_close_low)
         IN  IF decision.skip
             THEN DayResult(d, TRUE, decision.reason, Some(orb), prev_close, None, None, 0)
             ELSE simulate_trading(d, orb, prev_close, after, settings, symbol)

\* the 15-minute candles of the price history
Ohlc(open, high, low, close) == [open |-> open, high |-> high, low |-> low, close |-> close]
At(ts, c) == [ts |-> ts, open |-> c.open, high |-> c.high, low |-> c.low, close |-> c.close]
OnePrice(p) == Ohlc(p, p, p, p)

\* opening-range candles: 100 to 102, and 100 to 102.25 with its midpoint off the tick grid
OrbCandles == {Ohlc(Dec(101, 1), Dec(102, 1), Dec(100, 1), Dec(101, 1)),
               Ohlc(Dec(101, 1), Dec(10225, 100), Dec(100, 1), Dec(101, 1))}
\* the last candle of the previous day: overlapping the opening range, or below it
BtPrevCandles == {Ohlc(Dec(101, 1), Dec(101, 1), Dec(1005, 10), Dec(101, 1)),
                  Ohlc(Dec(995, 10), Dec(995, 10), Dec(99, 1), Dec(995, 10))}
\* later candles: inside the range, through one entry, through both, through
\* stop and target of either side, and single prices
CandleShapes ==
    {Ohlc(Dec(1015, 10), Dec(1015, 10), Dec(10125, 100), Dec(1015, 10)),
     Ohlc(Dec(1015, 10), Dec(1025, 10), Dec(1015, 10), Dec(1025, 10)),
     Ohlc(Dec(1015, 10), Dec(1015, 10), Dec(995, 10), Dec(995, 10)),
     Ohlc(Dec(101, 1), Dec(1025, 10), Dec(995, 10), Dec(101, 1)),
     Ohlc(Dec(102, 1), Dec(1035, 10), Dec(1005, 10), Dec(102, 1)),
     Ohlc(Dec(100, 1), Dec(1015, 10), Dec(985, 10), Dec(99, 1)),
     OnePrice(Dec(104, 1)), OnePrice(Dec(101, 1)), OnePrice(Dec(98, 1))}
SeqsUpTo(S, n) == UNION {[1..k -> S] : k \in 0..n}
AfterCandles == {[i \in 1..Len(cs) |-> At(AfterOrbAt + i - 1, cs[i])] : cs \in SeqsUpTo(CandleShapes, MaxCandles)}

BtSettings ==
    [entry_buffer_points : {None, Some(TICK)},
     target_points : {None, Some(Dec(1, 1))},
     be_check_time : {None, Some(TenOClock + 1)},
     skip_days : {[fomc_dates_2026 |-> Some(<<2>>), fomc_dates |-> None,
                   gap_threshold_pct |-> Some(Pct(2, 1)), max_range_points |-> None]},
     gap_threshold_pct : {None}]
BtDays == {1, 2}
BtSymbols == {"/ES", "SPY"}

InitBacktest ==
    /\ InitBroker
    /\ NoPlan
    /\ NoRound
    /\ NoSkip
    /\ NoTracker
    /\ NoLoop
    /\ NoPlace
    /\ sm = None
    /\ bt \in [d : BtDays, orb_candle : OptionalOf(OrbCandles), after : AfterCandles,
               prev_close_candle : {None} \cup {Some(c) : c \in BtPrevCandles},
               settings : BtSettings, symbol : BtSymbols, out : {None}]

SimulateDay ==
    /\ bt # None
    /\ bt.out = None
    /\ bt' = [bt EXCEPT !.out = Some(_simulate_day(bt.d, bt.orb_candle, bt.after,
                                        bt.prev_close_candle, bt.settings, bt.symbol))]
    /\ UNCHANGED outside_backtest

NextBacktest == SimulateDay

SpecBacktest == InitBacktest /\ [][NextBacktest]_vars

\* -------------------------------------------------------------------- C22
BtRan == bt # None /\ bt.out # None
\* the day got past the missing-candle and skip-day returns
ReachedCandles == BtRan /\ bt.out.val.plan # None
LongEntryOf(b) == b.orb_candle.val.high + bt_entry_buffer(b.settings)
ShortEntryOf(b) == b.orb_candle.val.low - bt_entry_buffer(b.settings)
Touches(b, i) == b.after[i].high >= LongEntryOf(b) \/ b.after[i].low <= ShortEntryOf(b)
TouchesBoth(b, i) == b.after[i].high >= LongEntryOf(b) /\ b.after[i].low <= ShortEntryOf(b)
\* the first candle that touches an entry level, 0 when none does
FirstTouch(b) ==
    IF \E i \in 1..Len(b.after) : Touches(b, i)
    THEN CHOOSE i \in 1..Len(b.after) : Touches(b, i) /\ \A j \in 1..(i - 1) : ~Touches(b, j)
    ELSE 0

\* C22: when the first candle that touches an entry level touches both, the
\* day is a no-trade with reason AMBIGUOUS_BOTH_BREAKOUTS, its result has no
\* trade (no side, entry, exit or P&L), and the loop has examined no candle
\* after that one.
C22_AmbiguousBreakout ==
    (ReachedCandles /\ FirstTouch(bt) # 0 /\ TouchesBoth(bt, FirstTouch(bt)))
        => /\ bt.out.val.skipped
           /\ bt.out.val.skip_reason = "AMBIGUOUS_BOTH_BREAKOUTS"
           /\ bt.out.val.trade = None
           /\ bt.out.val.examined = FirstTouch(bt)

C22_Witness ==
    /\ ReachedCandles
    /\ FirstTouch(bt) # 0
    /\ TouchesBoth(bt, FirstTouch(bt))
    /\ FirstTouch(bt) > 1
    /\ FirstTouch(bt) < Len(bt.after)
    /\ bt.out.val.skip_reason = "AMBIGUOUS_BOTH_BREAKOUTS"

\* -------------------------------------------------------------------- C23
\* the locals when the loop reaches candle k, after the breakeven move of that pass
LocalsAt(b, k) ==
    breakeven_move(candle_loop(bt_locals, SubSeq(b.after, 1, k - 1), 1, b.out.val.plan.val,
                               bt_be_time(b.settings)),
                   b.after[k].ts, bt_be_time(b.settings))
TouchesStop(st, c) == IF st.side = Some("LONG") THEN c.low <= st.stop_px.val ELSE c.high >= st.stop_px.val
TouchesTarget(st, c) == IF st.side = Some("LONG") THEN c.high >= st.target_px.val ELSE c.low <= st.target_px.val
BothTouchedAt(b, k) ==
    /\ LocalsAt(b, k).looping
    /\ LocalsAt(b, k).in_pos
    /\ TouchesStop(LocalsAt(b, k), b.after[k])
    /\ TouchesTarget(LocalsAt(b, k), b.after[k])

\* C23: when a candle touches both the stop and the target of the open
\* position, the trade is recorded as closed on that candle at the stop price
\* with reason STOP_AND_TARGET_SAME_CANDLE, not at the target, and its points
\* are not positive.
C23_ConservativeExit ==
    ReachedCandles =>
        \A k \in 1..Len(bt.after) :
            BothTouchedAt(bt, k) =>
                /\ bt.out.val.trade # None
                /\ bt.out.val.trade.val.exit_time = Some(bt.after[k].ts)
                /\ bt.out.val.trade.val.exit_reason = Some("STOP_AND_TARGET_SAME_CANDLE")
                /\ bt.out.val.trade.val.exit_price = LocalsAt(bt, k).stop_px
                /\ bt.out.val.trade.val.exit_price # LocalsAt(bt, k).target_px
                /\ bt.out.val.trade.val.points <= 0

\* both sides, and a stop moved to the entry price before the candle
C23_Witness ==
    /\ ReachedCandles
    /\ \E k \in 1..Len(bt.after) :
          /\ BothTouchedAt(bt, k)
          /\ LocalsAt(bt, k).side = Some("SHORT")
          /\ LocalsAt(bt, k).stop_px = LocalsAt(bt, k).entry_px
    /\ bt.out.val.trade.val.points = 0

C23_WitnessLoss ==
    /\ ReachedCandles
    /\ \E k \in 1..Len(bt.after) : BothTouchedAt(bt, k) /\ LocalsAt(bt, k).side = Some("LONG")
    /\ bt.out.val.trade.val.points < 0

\* ------------------------------------------------------ backtest._summarize
\* quotients are exact fractions in lowest terms (the source divides floats)
RECURSIVE gcd(_, _)
gcd(a, b) == IF b = 0 THEN a ELSE gcd(b, a % b)
Frac(n, d) == [num |-> n \div gcd(abs(n), d), den |-> d \div gcd(abs(n), d)]
Times(f, k) == Frac(f.num * k, f.den)

RECURSIVE sum(_)
sum(xs) == IF xs = <<>> THEN 0 ELSE Head(xs) + sum(Tail(xs))
Range(xs) == {xs[i] : i \in 1..Len(xs)}
max(xs) == CHOOSE x \in Range(xs) : \A y \in Range(xs) : y <= x
min(xs) == CHOOSE x \in Range(xs) : \A y \in Range(xs) : x <= y

is_skipped(r) == r.skipped
is_traded(r) == ~r.skipped /\ r.trade # None /\ r.trade.val.side # None
is_win(p) == p > 0
is_loss(p) == p < 0
is_breakeven(p) == ~(p > 0) /\ ~(p < 0)

\* the win rate over every traded day, breakevens included
win_rate_over_traded(wins, losses, breakevens) ==
    IF Len(wins) + Len(losses) + Len(breakevens) > 0
    THEN Frac(Len(wins) * 100, Len(wins) + Len(losses) + Len(breakevens))
    ELSE Frac(0, 1)

\* _summarize, win_rate
win_rate(wins, losses, breakevens) ==
    IF Len(wins) + Len(losses) > 0
    THEN Frac(Len(wins) * 100, Len(wins) + Len(losses))
    ELSE Frac(0, 1)

\* _summarize, profit_factor
profit_factor(wins, losses) ==
    LET gross_win == sum(wins)
        gross_loss == sum([i \in 1..Len(losses) |-> abs(losses[i])])
    IN  IF gross_loss > 0 THEN Some(Frac(gross_win, gross_loss)) ELSE None

\* _summarize, skip_reasons: the counter without the empty reason
skip_reasons(skipped) ==
    [r \in {skipped[i].skip_reason : i \in 1..Len(skipped)} \ {""} |->
        Cardinality({i \in 1..Len(skipped) : skipped[i].skip_reason = r})]

_summarize(results) ==
    LET skipped == SelectSeq(results, is_skipped)
        traded == SelectSeq(results, is_traded)
        points == [i \in 1..Len(traded) |-> traded[i].trade.val.points]
        wins == SelectSeq(points, is_win)
        losses == SelectSeq(points, is_loss)
        breakevens == SelectSeq(points, is_breakeven)
        total_points == sum(points)
        avg_win_pts == IF wins # <<>> THEN Frac(sum(wins), Len(wins)) ELSE Frac(0, 1)
        avg_loss_pts == IF losses # <<>> THEN Frac(sum(losses), Len(losses)) ELSE Frac(0, 1)
        largest_win == IF wins # <<>> THEN max(wins) ELSE 0
        largest_loss == IF losses # <<>> THEN min(losses) ELSE 0
    IN  [total_days |-> Len(results),
         traded_days |-> Len(traded),
         skipped_days |-> Len(skipped),
         skip_reasons |-> skip_reasons(skipped),
         wins |-> Len(wins),
         losses |-> Len(losses),
         breakevens |-> Len(breakevens),
         win_rate_pct |-> win_rate(wins, losses, breakevens),
         avg_win_points |-> avg_win_pts,
         avg_win_dollars |-> Times(avg_win_pts, ES_POINT_VALUE),
         avg_loss_points |-> avg_loss_pts,
         avg_loss_dollars |-> Times(avg_loss_pts, ES_POINT_VALUE),
         profit_factor |-> profit_factor(wins, losses),
         total_points |-> total_points,
         total_dollars |-> total_points * ES_POINT_VALUE,
         largest_win_points |-> largest_win,
         largest_win_dollars |-> largest_win * ES_POINT_VALUE,
         largest_loss_points |-> largest_loss,
         largest_loss_dollars |-> largest_loss * ES_POINT_VALUE]

\* day results as _simulate_day returns them: skipped days, a day without an
\* entry, and trades of +20, +5, 0 and -10 points
MaxResults == 4
SummaryOrb == [high |-> Dec(102, 1), low |-> Dec(100, 1), open |-> Dec(101, 1)]
SummaryLevels == bt_levels(build_orb_plan("/ES", OpeningRange(Dec(102, 1), Dec(100, 1)), DefaultTarget), 0, DefaultTarget)
TradedDay(side, entry, exit, reason) ==
    DayResult(1, FALSE, "", Some(SummaryOrb), None, Some(SummaryLevels),
              Some(Trade([bt_locals EXCEPT !.side = Some(side), !.entry_ts = Some(AfterOrbAt),
                                           !.entry_px = Some(entry), !.exit_ts = Some(TenOClock),
                                           !.exit_px = Some(exit), !.exit_reason = Some(reason)],
                         IF side = "LONG" THEN exit - entry ELSE entry - exit)), 2)
Win20 == TradedDay("LONG", Dec(102, 1), Dec(122, 1), "TARGET")
Win5 == TradedDay("SHORT", Dec(100, 1), Dec(95, 1), "EOD")
Loss10 == TradedDay("SHORT", Dec(100, 1), Dec(110, 1), "STOP")
Breakeven == TradedDay("LONG", Dec(102, 1), Dec(102, 1), "STOP")
NoEntryDay == DayResult(1, FALSE, "", Some(SummaryOrb), None, Some(SummaryLevels), Some(Trade(bt_locals, 0)), 2)
FomcDay == DayResult(2, TRUE, "FOMC_DAY", Some(SummaryOrb), None, None, None, 0)
AmbiguousDay == DayResult(1, TRUE, "AMBIGUOUS_BOTH_BREAKOUTS", Some(SummaryOrb), None, Some(SummaryLevels), None, 1)
DayResults == {Win20, Win5, Loss10, Breakeven, NoEntryDay, FomcDay, AmbiguousDay}
\* ten days: four wins of +20, three losses of -10, three skipped days
TenDays == <<Win20, FomcDay, Loss10, Win20, AmbiguousDay, Loss10, Win20, FomcDay, Loss10, Win20>>
ResultLists == SeqsUpTo(DayResults, MaxResults) \cup {TenDays}

InitSummary ==
    /\ InitBroker
    /\ NoPlan
    /\ NoRound
    /\ NoSkip
    /\ NoTracker
    /\ NoLoop
    /\ NoPlace
    /\ bt = None
    /\ sm \in [results : ResultLists, out : {None}]

Summarize ==
    /\ sm # None
    /\ sm.out = None
    /\ sm' = [sm EXCEPT !.out = Some(_summarize(sm.results))]
    /\ UNCHANGED outside_summary

NextSummary == Summarize

SpecSummary == InitSummary /\ [][NextSummary]_vars

\* -------------------------------------------------------------------- C24
Summarized == sm # None /\ sm.out # None
PointsOf(results) ==
    LET t == SelectSeq(results, is_traded) IN [i \in 1..Len(t) |-> t[i].trade.val.points]
WinCount(results) == Cardinality({i \in 1..Len(PointsOf(results)) : PointsOf(results)[i] > 0})
LossCount(results) == Cardinality({i \in 1..Len(PointsOf(results)) : PointsOf(results)[i] < 0})
RECURSIVE SumWhere(_, _)
SumWhere(ps, sign) ==
    IF ps = <<>> THEN 0
    ELSE (IF Head(ps) * sign > 0 THEN Head(ps) * sign ELSE 0) + SumWhere(Tail(ps), sign)
\* a = n / d
IsQuotient(a, n, d) == a.num * d = n * a.den
TradeStatistics(s) ==
    [k \in DOMAIN s \ {"total_days", "skipped_days", "skip_reasons"} |-> s[k]]

\* C24: the win rate is wins / (wins + losses) x 100 with breakevens in
\* neither count, the profit factor is the sum of the winning points over the
\* sum of the absolute losing points and null without a losing trade, the
\* trade statistics are those of the list without its skipped days, and the
\* ten-day example gives 80/30 and 4/7 x 100.
C24_Summary ==
    Summarized =>
        LET s == sm.out.val
            w == WinCount(sm.results)
            l == LossCount(sm.results)
        IN  /\ w + l > 0 => IsQuotient(s.win_rate_pct, w * 100, w + l)
            /\ l = 0 => s.profit_factor = None
            /\ l > 0 => /\ s.profit_factor # None
                        /\ IsQuotient(s.profit_factor.val, SumWhere(PointsOf(sm.results), 1),
                                      SumWhere(PointsOf(sm.results), -1))
            /\ TradeStatistics(s) = TradeStatistics(_summarize(SelectSeq(sm.results, LAMBDA r : ~r.skipped)))
            /\ sm.results = TenDays =>
                   /\ IsQuotient(s.profit_factor.val, 80, 30)
                   /\ IsQuotient(s.win_rate_pct, 4 * 100, 7)

\* a list with a win, a loss, a breakeven and a skipped day
C24_Witness ==
    /\ Summarized
    /\ sm.out.val.wins > 0 /\ sm.out.val.losses > 0
    /\ sm.out.val.breakevens > 0 /\ sm.out.val.skipped_days > 0

C24_WitnessTenDays == Summarized /\ sm.results = TenDays

\* -------------------------------------------------------------------- C25
\* a fresh PaperBroker given the bracket order of the range and then the prices in order
RECURSIVE feed(_, _)
feed(b, prices) == IF prices = <<>> THEN b ELSE feed(on_price(b, Head(prices)), Tail(prices))
live_broker(range_high, range_low, buffer, target, prices) ==
    feed(place_orb_oco(new_broker, range_high, range_low, buffer, target, 1), prices)

\* side, entry price, stop-or-target outcome and the exit price of that outcome
TradeShape(side, entry, outcome, exit) ==
    [side |-> side, entry |-> entry, outcome |-> outcome, exit |-> exit]
live_trade(b) ==
    IF ~HasEvent(b.log, "FILLED") THEN TradeShape(None, None, None, None)
    ELSE IF ~HasEvent(b.log, "CLOSE")
    THEN TradeShape(Some(TheEvent(b.log, "FILLED").side), Some(TheEvent(b.log, "FILLED").entry), None, None)
    ELSE TradeShape(Some(TheEvent(b.log, "FILLED").side), Some(TheEvent(b.log, "FILLED").entry),
                    Some(IF TheEvent(b.log, "CLOSE").exit_reason = "target" THEN "target" ELSE "stop"),
                    Some(TheEvent(b.log, "CLOSE").exit))
backtest_trade(t) ==
    IF t.exit_reason \in {Some("STOP"), Some("STOP_AND_TARGET_SAME_CANDLE")}
    THEN TradeShape(t.side, t.entry_price, Some("stop"), t.exit_price)
    ELSE IF t.exit_reason = Some("TARGET")
    THEN TradeShape(t.side, t.entry_price, Some("target"), t.exit_price)
    ELSE TradeShape(t.side, t.entry_price, None, None)

SinglePrices(b) == \A i \in 1..Len(b.after) : b.after[i] = At(b.after[i].ts, OnePrice(b.after[i].close))
LiveOf(b) ==
    live_trade(live_broker(b.orb_candle.val.high, b.orb_candle.val.low, bt_entry_buffer(b.settings),
                           bt_target_points(b.settings),
                           [i \in 1..Len(b.after) |-> b.after[i].close]))

\* C25: on a day whose candles are single prices, the side, entry price,
\* stop-or-target outcome and exit price of the trade _simulate_day records
\* are those of a PaperBroker given place_orb_oco for the same range, buffer
\* and target and then on_price for each price in order.
C25_ReplayEqualsBroker ==
    (ReachedCandles /\ bt.out.val.trade # None /\ SinglePrices(bt))
        => backtest_trade(bt.out.val.trade.val) = LiveOf(bt)

\* /ES, range 100 to 102, buffer 0.25, target 20, prices 101, 104, 98: both
\* go long at 102.25 and stop out on 98, the replay at the stop of 100 and
\* the broker at 98
C25_Example ==
    /\ ReachedCandles /\ bt.symbol = "/ES"
    /\ bt.orb_candle.val.high = Dec(102, 1) /\ bt.orb_candle.val.low = Dec(100, 1)
    /\ bt.settings.entry_buffer_points = Some(TICK) /\ bt.settings.target_points = None
    /\ bt.settings.be_check_time = None
    /\ bt.after = <<At(1, OnePrice(Dec(101, 1))), At(2, OnePrice(Dec(104, 1))), At(3, OnePrice(Dec(98, 1)))>>
C25_ExitAtTickPrice ==
    C25_Example
        => /\ backtest_trade(bt.out.val.trade.val) = TradeShape(Some("LONG"), Some(Dec(10225, 100)), Some("stop"), Some(Dec(100, 1)))
           /\ LiveOf(bt) = TradeShape(Some("LONG"), Some(Dec(10225, 100)), Some("stop"), Some(Dec(98, 1)))

\* -------------------------------------------------------------------- C26
\* the broker after the same call with a notifier whose send_message succeeds
WithSendingNotifier(c) ==
    IF c.op = "on_price" THEN on_price(self, c.price)
    ELSE exit_market(self, c.price, c.reason)

\* C26: a call that fills or exits while send_message raises or returns
\* False returns normally and leaves position, bracket, pending entry,
\* one-trade flag and breakeven flag as the same call with a succeeding
\* notifier does.
C26_AlertFailuresContained ==
    [][ (/\ call'.op \in {"on_price", "exit_market"}
         /\ call'.notifier \in {"refused", "raised"})
        => /\ ~call'.raised
           /\ position' = WithSendingNotifier(call').position
           /\ bracket' = WithSendingNotifier(call').bracket
           /\ oco' = WithSendingNotifier(call').oco
           /\ trade_taken_today' = WithSendingNotifier(call').trade_taken_today
           /\ _breakeven_stop_active' = WithSendingNotifier(call')._breakeven_stop_active ]_vars

\* an on_price call that fills and exits while both alerts raise
C26_Witness ==
    /\ call.op = "on_price"
    /\ call.notifier = "raised"
    /\ HasEvent(log, "FILLED")
    /\ HasEvent(log, "CLOSE")
    /\ Cardinality(Events(log, "ALERT_FAILED")) = 2
    /\ position = None /\ oco = None /\ trade_taken_today

C26_WitnessExitMarket ==
    /\ call.op = "exit_market"
    /\ call.notifier = "refused"
    /\ HasEvent(log, "CLOSE")
    /\ position = None

\* -------------------------------------------------------------------- C27
FilledAt(l, side, entry) ==
    /\ Cardinality(Events(l, "FILLED")) = 1
    /\ TheEvent(l, "FILLED").side = side
    /\ TheEvent(l, "FILLED").entry = entry

C27_WitnessShort ==
    /\ call.op = "on_price"
    /\ position # None
    /\ position.side = "SHORT"
    /\ HasEvent(log, "FILLED")

\* -------------------------------------------------------------------- C28
\* the level the stop is taken from
StopLevel(o, side) ==
    IF o.range_size > o.target_points THEN o.range_mid
    ELSE IF side = "LONG" THEN o.range_low ELSE o.range_high
\* v is x rounded down (up) to a multiple of the 0.25 tick
RoundedDown(v, x) == v % TICK = 0 /\ v <= x /\ x < v + TICK
RoundedUp(v, x) == v % TICK = 0 /\ v - TICK < x /\ x <= v

\* C28: the bracket of a fill by on_price has its entry at the trigger of the
\* filled side, its target target_points beyond the entry, and its stop at
\* the range midpoint when the stored range size exceeds target_points and at
\* the opposite range boundary otherwise, rounded down to the tick for LONG
\* and up for SHORT; it is the bracket of the position the call leaves open.
C28_BracketOnFill ==
    [][ (call'.op = "on_price" /\ oco # None /\ HasEvent(log', "FILLED"))
        => LET f == TheEvent(log', "FILLED")
           IN  /\ f.entry = IF f.side = "LONG" THEN oco.buy_stop ELSE oco.sell_stop
               /\ f.target = IF f.side = "LONG" THEN f.entry + oco.target_points
                             ELSE f.entry - oco.target_points
               /\ IF f.side = "LONG" THEN RoundedDown(f.stop, StopLevel(oco, "LONG"))
                  ELSE RoundedUp(f.stop, StopLevel(oco, "SHORT"))
               /\ position' # None
                    => /\ position'.entry = f.entry
                       /\ bracket' = Bracket(f.stop, f.target) ]_vars

\* a SHORT fill at one tick with target_points 0: the range is 2 ticks to more
\* than 2 ticks, the stop of 3 ticks is the midpoint rounded up
C28_Witness ==
    /\ call.op = "on_price"
    /\ HasEvent(log, "FILLED")
    /\ TheEvent(log, "FILLED").side = "SHORT"
    /\ TheEvent(log, "FILLED").entry = TICK
    /\ TheEvent(log, "FILLED").target = TICK
    /\ TheEvent(log, "FILLED").stop = 3 * TICK

\* a SHORT fill with target_points one tick and the stop at the range high of
\* 3.5 ticks rounded up, the position left open
C28_WitnessBoundary ==
    /\ call.op = "on_price"
    /\ HasEvent(log, "FILLED")
    /\ position # None
    /\ position.side = "SHORT"
    /\ position.entry = TICK
    /\ bracket = Bracket(4 * TICK, 0)

\* ---------------------------------------- place_orb_oco near the tick grid
\* a price of u units and h halves of eps
Fine(u, h) == [u |-> u, h |-> h]

\* the pending entry with both triggers rounded to the nearest tick
OCOEntryNearest(range_high, range_low, buffer, target, qty) ==
    [buy_stop      |-> round_to_tick_fine(range_high.u + buffer, range_high.h, TICK, "nearest"),
     sell_stop     |-> round_to_tick_fine(range_low.u - buffer, range_low.h, TICK, "nearest"),
     range_high    |-> range_high,
     range_low     |-> range_low,
     range_mid     |-> Fine((range_high.u + range_low.u) \div 2, (range_high.h + range_low.h) \div 2),
     range_size    |-> Fine(range_high.u - range_low.u, range_high.h - range_low.h),
     target_points |-> target,
     qty           |-> qty]

\* paper.OCOEntry as place_orb_oco builds it from range boundaries given to
\* the half of eps (even units and even halves, so that the midpoint is exact)
OCOEntryFine(range_high, range_low, buffer, target, qty) ==
    [buy_stop      |-> round_to_tick_fine(range_high.u + buffer, range_high.h, TICK, "up"),
     sell_stop     |-> round_to_tick_fine(range_low.u - buffer, range_low.h, TICK, "down"),
     range_high    |-> range_high,
     range_low     |-> range_low,
     range_mid     |-> Fine((range_high.u + range_low.u) \div 2, (range_high.h + range_low.h) \div 2),
     range_size    |-> Fine(range_high.u - range_low.u, range_high.h - range_low.h),
     target_points |-> target,
     qty           |-> qty]

\* place_orb_oco: the pending entry afterwards, None when the call is refused
place_orb_oco_fine(taken, range_high, range_low, buffer, target, qty) ==
    IF taken THEN None
    ELSE Some(OCOEntryFine(range_high, range_low, buffer, target, qty))

PlaceHighs == {Dec(102, 1), Dec(10210, 100), Dec(10225, 100)}
PlaceLows == {Dec(100, 1), Dec(9990, 100), Dec(9975, 100)}
PlaceBuffers == {0, TICK, Dec(1, 10)}
PlaceSubs == {k * eps : k \in -2..2}

InitPlace ==
    /\ InitBroker
    /\ NoPlan
    /\ NoRound
    /\ NoSkip
    /\ NoTracker
    /\ NoLoop
    /\ NoBacktest
    /\ po \in [trade_taken_today : BOOLEAN,
               range_high : {Fine(u, h) : u \in PlaceHighs, h \in PlaceSubs},
               range_low : {Fine(u, h) : u \in PlaceLows, h \in PlaceSubs},
               buffer : PlaceBuffers, target_points : {DefaultTarget},
               called : {FALSE}, out : {None}]

PlaceFine ==
    /\ po # None
    /\ ~po.called
    /\ po' = [po EXCEPT !.called = TRUE,
                        !.out = place_orb_oco_fine(po.trade_taken_today, po.range_high, po.range_low,
                                                   po.buffer, po.target_points, 1)]
    /\ UNCHANGED outside_place

NextPlace == PlaceFine

SpecPlace == InitPlace /\ [][NextPlace]_vars

\* -------------------------------------------------------------------- C29
Accepted == po # None /\ po.called /\ po.out # None
\* v is the smallest multiple of the tick with v >= u + k * eps / 2
SmallestTickAtLeast(v, u, k) == v % TICK = 0 /\ AtLeast(v, u, k) /\ ~AtLeast(v - TICK, u, k)
\* v is the largest multiple of the tick with v <= u + k * eps / 2
LargestTickAtMost(v, u, k) == v % TICK = 0 /\ AtMost(v, u, k) /\ ~AtMost(v + TICK, u, k)
StoresRange ==
    /\ po.out.val.range_mid.u * 2 = po.range_high.u + po.range_low.u
    /\ po.out.val.range_mid.h * 2 = po.range_high.h + po.range_low.h
    /\ po.out.val.range_size.u = po.range_high.u - po.range_low.u
    /\ po.out.val.range_size.h = po.range_high.h - po.range_low.h

\* C29 as stated: after an accepted place_orb_oco, buy_stop is the smallest
\* multiple of 0.25 that is >= range_high + buffer, sell_stop the largest
\* multiple of 0.25 that is <= range_low - buffer, and the entry stores the
\* midpoint and the size of the unbuffered range.
C29_TriggerPrices ==
    Accepted =>
        /\ SmallestTickAtLeast(po.out.val.buy_stop, po.range_high.u + po.buffer, po.range_high.h)
        /\ LargestTickAtMost(po.out.val.sell_stop, po.range_low.u - po.buffer, po.range_low.h)
        /\ StoresRange

\* C29 amended: after an accepted place_orb_oco, buy_stop is the smallest
\* multiple of 0.25 that is >= range_high + buffer - eps, sell_stop the
\* largest multiple of 0.25 that is <= range_low - buffer + eps, and the
\* entry stores the midpoint and the size of the unbuffered range; for
\* boundaries not within eps of a tick these are the triggers of the
\* statement above.
C29_TriggerPricesWithinEps ==
    Accepted =>
        /\ SmallestTickAtLeast(po.out.val.buy_stop, po.range_high.u + po.buffer, po.range_high.h - eps)
        /\ LargestTickAtMost(po.out.val.sell_stop, po.range_low.u - po.buffer, po.range_low.h + eps)
        /\ StoresRange
        /\ (po.range_high.h = 0 \/ (po.range_high.u + po.buffer) % TICK # 0)
              => SmallestTickAtLeast(po.out.val.buy_stop, po.range_high.u + po.buffer, po.range_high.h)
        /\ (po.range_low.h = 0 \/ (po.range_low.u - po.buffer) % TICK # 0)
              => LargestTickAtMost(po.out.val.sell_stop, po.range_low.u - po.buffer, po.range_low.h)

\* range_high + buffer is eps above a tick and buy_stop is that tick;
\* range_low - buffer is eps below a tick and sell_stop is that tick
C29_Witness ==
    /\ Accepted
    /\ po.range_high.h = eps
    /\ po.out.val.buy_stop = po.range_high.u + po.buffer
    /\ po.range_low.h = -eps
    /\ po.out.val.sell_stop = po.range_low.u - po.buffer

\* -------------------------------------------------------------------- C30
\* the last update call fell into the opening window and got a quote
BuildingWithQuote ==
    /\ Updated
    /\ OpenAt <= upd.now /\ upd.now < EndAt
    /\ upd.quote \notin {Failure, NotAsked}
Age(quote) == upd.now * SecondsPerMinute - quote.qts.val
StaleQuote == BuildingWithQuote /\ upd.quote.qts # None /\ Age(upd.quote) > max_stale_s
FreshQuote ==
    /\ BuildingWithQuote /\ upd.quote.price > 0
    /\ upd.quote.qts # None /\ Age(upd.quote) <= max_stale_s
\* the tracker when that call reaches the quote: seeded from history on the first call of the window
AtQuote ==
    IF upd.before._seeded_from_history THEN upd.before
    ELSE _seed_from_history(upd.before, upd.now, upd.now, upd.history)
Higher(a, b) == IF a = None THEN b ELSE Some(max2(a.val, b.val))
Lower(a, b) == IF a = None THEN b ELSE Some(min2(a.val, b.val))

\* C30: in the opening window a quote stamped more than max_stale_s before
\* now leaves the running high and low and the last accepted quote timestamp
\* as they were and update returns BUILDING_RANGE; a quote stamped within
\* max_stale_s with a positive price makes the high the larger of high and
\* price and the low the smaller of low and price and becomes the last
\* accepted quote; and no update call in the window lowers a high or raises
\* a low.
C30_StaleQuotesDropped ==
    /\ StaleQuote =>
          /\ tracker.range_high = AtQuote.range_high
          /\ tracker.range_low = AtQuote.range_low
          /\ tracker._last_quote_ts = upd.before._last_quote_ts
          /\ upd.result = Returned("BUILDING_RANGE")
    /\ FreshQuote =>
          /\ tracker.range_high = Higher(AtQuote.range_high, Some(upd.quote.price))
          /\ tracker.range_low = Lower(AtQuote.range_low, Some(upd.quote.price))
          /\ tracker._last_quote_ts = upd.quote.qts
          /\ upd.result = Returned("BUILDING_RANGE")
    /\ (Updated /\ OpenAt <= upd.now /\ upd.now < EndAt) =>
          /\ upd.before.range_high # None
                => tracker.range_high # None /\ tracker.range_high.val >= upd.before.range_high.val
          /\ upd.before.range_low # None
                => tracker.range_low # None /\ tracker.range_low.val <= upd.before.range_low.val

\* a stale quote above the running high, after an accepted quote, has changed nothing
C30_Witness ==
    /\ StaleQuote
    /\ upd.before.range_high # None
    /\ upd.before._last_quote_ts # None
    /\ upd.quote.price > upd.before.range_high.val
    /\ tracker.range_high = upd.before.range_high
    /\ tracker._last_quote_ts = upd.before._last_quote_ts

\* a quote exactly max_stale_s old has raised the high
C30_WitnessFresh ==
    /\ FreshQuote
    /\ Age(upd.quote) = max_stale_s
    /\ upd.before.range_high # None
    /\ tracker.range_high.val > upd.before.range_high.val

\* -------------------------------------------------------------------- C31
InWindow(now_e) == OpenAt <= now_e /\ now_e < EndAt

\* the seed fetch of the last update answered nothing usable: it raised, or
\* held no candle in [window start, now)
SeedFoundNothing(u) ==
    \/ u.history = Failure
    \/ u.history # NotAsked /\ in_window(u.history.candles, OpenAt, u.now) = {}

\* C31: over a sequence of update calls on one tracker the seed fetch is made
\* on the first update that falls inside the window and on no later one, also
\* when that fetch failed or returned no candle in [window start, now).
C31_SeedOnce ==
    [][InWindow(upd'.now) =>
          /\ upd'.fetches = (IF InWindow(upd.now) THEN 0 ELSE 1)
          /\ tracker'._seeded_from_history]_vars

\* a second update inside the window, made after a seed fetch that found
\* nothing, asks for no history
C31_Witness ==
    /\ Updated
    /\ InWindow(upd.now)
    /\ upd.before.state = "BUILDING_RANGE"
    /\ upd.before.range_high = None
    /\ upd.fetches = 0
    /\ upd.history = NotAsked

\* the first update inside the window, its seed fetch finding nothing
C31_WitnessFailedSeed ==
    /\ Updated
    /\ InWindow(upd.now)
    /\ upd.before.state = "WAITING_FOR_OPEN"
    /\ SeedFoundNothing(upd)
    /\ upd.fetches = 1
    /\ tracker._seeded_from_history

\* -------------------------------------------------------------------- C32
\* ORBTracker.opening_range
opening_range_of(t) == t._opening_range

\* C32: after every update call on one session date opening_range() returns
\* none exactly when the tracker state is not RANGE_COMPLETE, and in
\* RANGE_COMPLETE it returns a range with high >= low whose high and low equal
\* the tracker's range_high and range_low.
C32_OpeningRangeExposed ==
    Updated =>
        /\ opening_range_of(tracker) = None <=> tracker.state # "RANGE_COMPLETE"
        /\ tracker.state = "RANGE_COMPLETE" =>
              LET r == opening_range_of(tracker).val
              IN  /\ r.high >= r.low
                  /\ tracker.range_high = Some(r.high)
                  /\ tracker.range_low = Some(r.low)

\* the completing update replaced a running high that a quote had pushed
\* beyond the candles of the window
C32_Witness ==
    /\ Updated
    /\ tracker.state = "RANGE_COMPLETE"
    /\ upd.before.state = "BUILDING_RANGE"
    /\ upd.before.range_high # None
    /\ upd.before.range_high.val > opening_range_of(tracker).val.high

\* inside the window the running range exists and no range is exposed
C32_WitnessBuilding ==
    /\ Updated
    /\ tracker.state = "BUILDING_RANGE"
    /\ tracker.range_high # None
    /\ opening_range_of(tracker) = None

\* -------------------------------------------------------------------- C33
\* the day has a trade: its entry candle, its side and the levels it got
Traded(b) == b.out.val.trade # None /\ b.out.val.trade.val.entry_time # None
CandleAt(b, ts) == CHOOSE k \in 1..Len(b.after) : b.after[k].ts = ts
EntryCandle(b) == CandleAt(b, b.out.val.trade.val.entry_time.val)
\* the candle a stop or target exit fell on; the day's last candle for EOD
ExitCandle(b) == CandleAt(b, b.out.val.trade.val.exit_time.val)
IsLong(b) == b.out.val.trade.val.side = Some("LONG")
OriginalStop(b) == IF IsLong(b) THEN b.out.val.plan.val.long_stop ELSE b.out.val.plan.val.short_stop
EntryPrice(b) == b.out.val.trade.val.entry_price.val
InFavour(b, stop, entry) == IF IsLong(b) THEN max2(stop, entry) ELSE min2(stop, entry)

\* candle k starts at be_check_time and the position was filled before it
MovedBy(b, k) ==
    \E j \in (EntryCandle(b) + 1)..k : b.after[j].ts = bt_be_time(b.settings)

\* the stop the test of candle k is to use
StopFor(b, k) ==
    IF MovedBy(b, k) THEN InFavour(b, OriginalStop(b), EntryPrice(b)) ELSE OriginalStop(b)

\* the position is open when the loop tests candle k
PositionOpenAt(b, k) == EntryCandle(b) < k /\ k <= ExitCandle(b) /\ LocalsAt(b, k).in_pos

\* C33: in _simulate_day, when a position is already open at the candle whose
\* start equals be_check_time, the stop is moved to the entry price in the
\* trade's favour (LONG: max(stop, entry); SHORT: min(stop, entry)) before
\* that candle's stop/target test, and the stop is changed at no other candle;
\* a position filled on or after that candle keeps its original stop.
C33_BacktestBreakeven ==
    ReachedCandles /\ Traded(bt) =>
        /\ \A k \in 1..Len(bt.after) :
              PositionOpenAt(bt, k) => LocalsAt(bt, k).stop_px = Some(StopFor(bt, k))
        /\ bt.out.val.trade.val.exit_reason \in {Some("STOP"), Some("STOP_AND_TARGET_SAME_CANDLE")}
              => bt.out.val.trade.val.exit_price = Some(StopFor(bt, ExitCandle(bt)))

\* the candle at be_check_time reaches back to the entry price and not to the
\* original stop: the position opened before it is stopped out flat on it
C33_Witness ==
    /\ ReachedCandles
    /\ Traded(bt)
    /\ bt.out.val.trade.val.exit_reason = Some("STOP")
    /\ bt.after[ExitCandle(bt)].ts = bt_be_time(bt.settings)
    /\ StopFor(bt, ExitCandle(bt)) # OriginalStop(bt)
    /\ IF IsLong(bt) THEN bt.after[ExitCandle(bt)].low > OriginalStop(bt)
       ELSE bt.after[ExitCandle(bt)].high < OriginalStop(bt)
    /\ bt.out.val.trade.val.points = 0

\* a position filled on the candle at be_check_time is stopped out later at
\* its original stop
C33_WitnessFilledLater ==
    /\ ReachedCandles
    /\ Traded(bt)
    /\ bt.after[EntryCandle(bt)].ts = bt_be_time(bt.settings)
    /\ bt.out.val.trade.val.exit_reason = Some("STOP")
    /\ bt.out.val.trade.val.exit_price = Some(OriginalStop(bt))
    /\ bt.out.val.trade.val.points < 0

\* -------------------------------------------------------------------- C34
\* the position the candles call for: filled on the first candle that touches
\* one entry level
Fills(b) == FirstTouch(b) # 0 /\ ~TouchesBoth(b, FirstTouch(b))
FillsLong(b) == b.after[FirstTouch(b)].high >= LongEntryOf(b)
FillLevel(b) == IF FillsLong(b) THEN LongEntryOf(b) ELSE ShortEntryOf(b)
FillStop(b) == IF FillsLong(b) THEN b.out.val.plan.val.long_stop ELSE b.out.val.plan.val.short_stop
FillTarget(b) ==
    IF FillsLong(b) THEN LongEntryOf(b) + bt_target_points(b.settings)
    ELSE ShortEntryOf(b) - bt_target_points(b.settings)
\* its stop at candle k, moved to the entry price once a later candle started at be_check_time
FillStopAt(b, k) ==
    IF \E j \in (FirstTouch(b) + 1)..k : b.after[j].ts = bt_be_time(b.settings)
    THEN IF FillsLong(b) THEN max2(FillStop(b), FillLevel(b)) ELSE min2(FillStop(b), FillLevel(b))
    ELSE FillStop(b)
StopTouched(b, k) ==
    IF FillsLong(b) THEN b.after[k].low <= FillStopAt(b, k) ELSE b.after[k].high >= FillStopAt(b, k)
TargetTouched(b, k) ==
    IF FillsLong(b) THEN b.after[k].high >= FillTarget(b) ELSE b.after[k].low <= FillTarget(b)
\* no candle after the entry candle touches the stop or the target
StillOpenAtEnd(b) ==
    /\ Fills(b)
    /\ \A k \in (FirstTouch(b) + 1)..Len(b.after) : ~StopTouched(b, k) /\ ~TargetTouched(b, k)
LastCandle(b) == b.after[Len(b.after)]

\* C34: if after the last candle of the day a position is still open (neither
\* stop nor target was touched on any candle after the entry candle), the
\* trade is closed at the last candle's closing price with reason EOD and
\* points = exit - entry for LONG, entry - exit for SHORT.
C34_BacktestEndOfDay ==
    ReachedCandles /\ StillOpenAtEnd(bt) =>
        /\ bt.out.val.trade # None
        /\ LET trade == bt.out.val.trade.val
           IN  /\ trade.exit_reason = Some("EOD")
               /\ trade.exit_price = Some(LastCandle(bt).close)
               /\ trade.exit_time = Some(LastCandle(bt).ts)
               /\ trade.entry_price = Some(FillLevel(bt))
               /\ trade.side = Some(IF FillsLong(bt) THEN "LONG" ELSE "SHORT")
               /\ trade.points = (IF FillsLong(bt) THEN LastCandle(bt).close - FillLevel(bt)
                                  ELSE FillLevel(bt) - LastCandle(bt).close)

\* a long held over a later candle that opens and closes at different prices
C34_Witness ==
    /\ ReachedCandles
    /\ StillOpenAtEnd(bt)
    /\ FillsLong(bt)
    /\ FirstTouch(bt) < Len(bt.after)
    /\ LastCandle(bt).open # LastCandle(bt).close
    /\ bt.out.val.trade.val.points > 0

\* a short filled on the last candle of the day
C34_WitnessEntryOnLastCandle ==
    /\ ReachedCandles
    /\ StillOpenAtEnd(bt)
    /\ ~FillsLong(bt)
    /\ FirstTouch(bt) = Len(bt.after)
    /\ bt.out.val.trade.val.exit_reason = Some("EOD")

\* -------------------------------------------------------------------- C35
Flat == position = None /\ oco = None /\ bracket = None

\* a pass on a date whose end-of-day step has run: no second end-of-day step,
\* no placement, no fill, and the date stays done
AfterEodStep ==
    /\ count(run'.events, "EOD_EXIT") <= 1
    /\ loop.eod_done /\ ~Did(run'.events, "NEW_DAY") =>
          /\ ~Did(run'.events, "EOD_EXIT")
          /\ ~Did(run'.events, "PLACE_CALLED")
          /\ ~HasEvent(log', "FILLED")
          /\ ~HasEvent(log', "PLACED")
          /\ loop'.eod_done
          /\ position' = None /\ oco' = None

\* C35: in the live loop, once the end-of-day step has run on a session date,
\* the broker holds no position and no pending entry, and none is created at
\* any later tick until the calendar date changes; the end-of-day step runs at
\* most once per date.
C35_FlatAfterEod == [](loop.eod_done => Flat) /\ [][AfterEodStep]_vars

\* the end-of-day step closing an open position
C35_Witness ==
    /\ loop # None
    /\ loop.eod_done
    /\ Did(run.events, "EOD_EXIT")
    /\ HasEvent(log, "CLOSE")
    /\ TheEvent(log, "CLOSE").exit_reason = "eod"
    /\ Flat

\* a later tick of a done date with the price beyond the buy trigger, on a
\* date that had no trade
C35_WitnessLaterTick ==
    /\ loop # None
    /\ loop.eod_done
    /\ ~Did(run.events, "EOD_EXIT")
    /\ run.fills = 0
    /\ run.places = 1
    /\ tracker._opening_range # None
    /\ _last_price # None
    /\ _last_price.val > tracker._opening_range.val.high + buffer_points
    /\ Flat

\* -------------------------------------------------------------------- C36
\* C36: after every public operation of the PaperBroker (place_orb_oco,
\* on_price, move_stop_to_breakeven_if_in_profit, exit_market, cancel_entry,
\* reset_for_new_day), in any order, a position and a pending OCO entry never
\* exist together, a bracket exists exactly when a position exists, an open
\* position implies the one-trade flag is set, and the breakeven flag is set
\* only while a position is open.
C36_BrokerStructure ==
    /\ ~(position # None /\ oco # None)
    /\ bracket # None <=> position # None
    /\ position # None => trade_taken_today
    /\ _breakeven_stop_active => position # None

\* a placement refused while a position with a moved stop is open
C36_Witness ==
    /\ call.op = "place_orb_oco"
    /\ HasEvent(log, "REFUSED")
    /\ position # None
    /\ bracket # None
    /\ _breakeven_stop_active
    /\ oco = None

\* a stop-out of a position whose stop had been moved to breakeven
C36_WitnessClosed ==
    /\ call.op = "on_price"
    /\ HasEvent(log, "CLOSE")
    /\ TheEvent(log, "CLOSE").exit_reason = "breakeven_stop"
    /\ position = None /\ bracket = None /\ ~_breakeven_stop_active
    /\ trade_taken_today

\* -------------------------------------------------------------------- C37
\* what a closed position realised, and the distances of its bracket
Realised(c, price) == IF c.side = "LONG" THEN price - c.entry ELSE c.entry - price
TargetDistance(c) == IF c.side = "LONG" THEN c.target - c.entry ELSE c.entry - c.target
StopDistance(c) == IF c.side = "LONG" THEN c.stop - c.entry ELSE c.entry - c.stop

\* an on_price call that fills an entry checks the new bracket against the
\* price of the call
FillAndExit ==
    call'.op = "on_price" /\ HasEvent(log', "FILLED") =>
        LET f == TheEvent(log', "FILLED")
            c == Checked(None, None, log')
        IN  /\ f.entry = (IF f.side = "LONG" THEN oco.buy_stop ELSE oco.sell_stop)
            /\ TargetDistance(c) = oco.target_points
            /\ HasEvent(log', "CLOSE") <=> StopHit(c, call'.price) \/ TargetHit(c, call'.price)
            /\ HasEvent(log', "CLOSE") => position' = None /\ bracket' = None
            /\ ~HasEvent(log', "CLOSE") =>
                  /\ position' = Position(f.side, oco.qty, f.entry)
                  /\ bracket' = [stop |-> f.stop, target |-> f.target]

\* every exit of an on_price call is booked at the price of the call; a target
\* exit realises at least the target distance, a stop exit before a breakeven
\* move at most the (non-positive) stop distance
ExitAtObservedPrice ==
    call'.op = "on_price" /\ HasEvent(log', "CLOSE") =>
        LET c == Checked(position, bracket, log')
            x == TheEvent(log', "CLOSE")
        IN  /\ x.exit = call'.price
            /\ x.pnl = Realised(c, call'.price)
            /\ x.exit_reason = "target" => x.pnl >= TargetDistance(c)
            /\ x.exit_reason = "stop" => x.pnl <= StopDistance(c) /\ StopDistance(c) <= 0

\* C37: when on_price fills an entry, the bracket check of the same call is
\* run against the same price, so the new position is closed within that call
\* exactly when that price already satisfies its stop or target; the entry is
\* booked at the trigger price and the exit at the observed price, hence a
\* target exit always realises at least target_points and a stop exit (before
\* any breakeven move) realises at most stop - entry for LONG and entry - stop
\* for SHORT.
C37_FillAndExitInOneCall == [][FillAndExit /\ ExitAtObservedPrice]_vars

\* a price that crosses the trigger and lands beyond the target: filled and
\* closed in one call, for more than the target distance
C37_Witness ==
    /\ call.op = "on_price"
    /\ HasEvent(log, "FILLED")
    /\ HasEvent(log, "CLOSE")
    /\ TheEvent(log, "CLOSE").exit_reason = "target"
    /\ TheEvent(log, "CLOSE").pnl > TargetDistance(Checked(None, None, log))
    /\ TargetDistance(Checked(None, None, log)) > 0
    /\ position = None

\* a fill whose price satisfies neither level leaves the position open
C37_WitnessStaysOpen ==
    /\ call.op = "on_price"
    /\ HasEvent(log, "FILLED")
    /\ ~HasEvent(log, "CLOSE")
    /\ position # None
    /\ call.price > position.entry

\* -------------------------------------------------------------------- C38
\* the quote of the pass was fetched and carried no last price: main reads 0
NoLastPrice(c) == c.op = "main" /\ c.price = Some(0)
\* the exits the bracket check of on_price made, not the end-of-day step
BracketExits(l) == {i \in Events(l, "CLOSE") : l[i].exit_reason # "eod"}

\* C38: in the live loop a successfully fetched quote that carries no last
\* price (last_price read as 0) neither fills a pending entry nor closes an
\* open position.
C38_NoPriceNoTrade ==
    [][NoLastPrice(call') => ~HasEvent(log', "FILLED") /\ BracketExits(log') = {}]_vars

\* a pass whose quote carried no last price: the pending entry is filled
\* SHORT at its trigger and closed at price 0 as a target exit
C38_Example ==
    /\ loop # None
    /\ NoLastPrice(call)
    /\ HasEvent(log, "FILLED")
    /\ TheEvent(log, "FILLED").side = "SHORT"
    /\ BracketExits(log) # {}
    /\ TheEvent(log, "CLOSE").exit = 0
    /\ TheEvent(log, "CLOSE").exit_reason = "target"
    /\ TheEvent(log, "CLOSE").pnl = TheEvent(log, "FILLED").entry

\* a pass whose quote carried no last price closes the SHORT opened by an
\* earlier pass at price 0
C38_ExampleOpenPosition ==
    /\ loop # None
    /\ NoLastPrice(call)
    /\ ~HasEvent(log, "FILLED")
    /\ BracketExits(log) # {}
    /\ TheEvent(log, "CLOSE").side = "SHORT"
    /\ TheEvent(log, "CLOSE").exit = 0
    /\ TheEvent(log, "CLOSE").exit_reason = "target"

\* -------------------------------------------------------------------- C39
\* the pass is on the date of the pass before it
SameDate == run'.now.date = run.now.date
\* the pass is the first of its date at or after be_check_time
FirstTickPastBe ==
    /\ is_past_time(run'.now.t, BeCheckAt)
    /\ ~(SameDate /\ is_past_time(run.now.t, BeCheckAt))
\* the pass is the first of its date at or after be_check_time that fetched its quote
FirstPricedTickPastBe ==
    /\ is_past_time(run'.now.t, BeCheckAt)
    /\ call'.price # Failure
    /\ ~(SameDate /\ run.priced_past_be)

\* the stop the position held after the pass started with: the stop it had,
\* or the stop of the fill when the pass opened it
StopBefore == IF position # None /\ SameDate THEN bracket.stop ELSE TheEvent(log', "FILLED").stop

\* a stop changes only by the breakeven move, which needs the position in profit
StopChangesOnlyAtBe(first) ==
    /\ HasEvent(log', "BREAKEVEN") => first
    /\ position' # None =>
          IF HasEvent(log', "BREAKEVEN")
          THEN /\ InProfit(position', call'.price.val)
               /\ bracket'.stop = BreakevenStop(position')
          ELSE bracket'.stop = StopBefore

\* C39: in the live loop the breakeven rule can change a stop only at the
\* first tick at or after be_check_time of a session date; a position that is
\* not open, or not in profit, at that tick keeps its original stop until it
\* exits (in particular a position filled after be_check_time is never moved
\* to breakeven).
C39_LiveBreakevenWindow == [][StopChangesOnlyAtBe(FirstTickPastBe)]_vars

\* the same with the first tick at or after be_check_time that fetched its quote
C39_LiveBreakevenWindowPriced == [][StopChangesOnlyAtBe(FirstPricedTickPastBe)]_vars

\* the stop of a position opened by an earlier pass has just been moved
C39_Witness ==
    /\ loop # None
    /\ HasEvent(log, "BREAKEVEN")
    /\ ~HasEvent(log, "FILLED")
    /\ position # None
    /\ _breakeven_stop_active
    /\ bracket.stop = BreakevenStop(position)
    /\ run.now.t >= BeCheckAt

\* a position filled after the breakeven check of its date, in profit, its stop unmoved
C39_WitnessFilledLater ==
    /\ loop # None
    /\ loop.be_done
    /\ ~Did(run.events, "BREAKEVEN_CHECKED")
    /\ position # None
    /\ InProfit(position, _last_price.val)
    /\ ~_breakeven_stop_active
    /\ bracket.stop # BreakevenStop(position)

\* -------------------------------------------------------------------- C40
LevelExits == {Some("STOP"), Some("TARGET"), Some("STOP_AND_TARGET_SAME_CANDLE")}

\* C40: _simulate_day records at most one trade per day, entry is detected by
\* a level test on each candle from 09:45 on (LONG when high >= long entry,
\* SHORT when low <= short entry) and fills at the entry level, and the entry
\* candle itself is never tested for stop or target: a stop or target exit
\* always falls on a candle strictly after the entry candle.
C40_BacktestTradeShape ==
    ReachedCandles /\ bt.out.val.trade # None =>
        LET trade == bt.out.val.trade.val
        IN  /\ FirstTouch(bt) = 0 =>
                  /\ trade.side = None /\ trade.entry_time = None /\ trade.exit_time = None
                  /\ trade.points = 0
                  /\ bt.out.val.examined = Len(bt.after)
            /\ FirstTouch(bt) # 0 =>
                  /\ Fills(bt)
                  /\ trade.side = Some(IF FillsLong(bt) THEN "LONG" ELSE "SHORT")
                  /\ trade.entry_time = Some(bt.after[FirstTouch(bt)].ts)
                  /\ trade.entry_price = Some(FillLevel(bt))
                  /\ trade.exit_reason \in LevelExits \cup {Some("EOD")}
                  /\ trade.exit_reason \in LevelExits =>
                        /\ ExitCandle(bt) > FirstTouch(bt)
                        /\ bt.out.val.examined = ExitCandle(bt)
                        /\ StopTouched(bt, ExitCandle(bt)) \/ TargetTouched(bt, ExitCandle(bt))
                        /\ \A k \in (FirstTouch(bt) + 1)..(ExitCandle(bt) - 1) :
                              ~StopTouched(bt, k) /\ ~TargetTouched(bt, k)

\* the entry candle reaches through the target of the position it fills; the
\* trade is closed at the target on a later candle
C40_Witness ==
    /\ ReachedCandles
    /\ Fills(bt)
    /\ TargetTouched(bt, FirstTouch(bt))
    /\ bt.out.val.trade.val.exit_reason = Some("TARGET")
    /\ ExitCandle(bt) > FirstTouch(bt)

\* the trade is closed on the second candle and the third, which touches an
\* entry level again, is not examined
C40_WitnessOneTrade ==
    /\ ReachedCandles
    /\ Fills(bt)
    /\ bt.out.val.trade.val.exit_reason \in LevelExits
    /\ ExitCandle(bt) < Len(bt.after)
    /\ Touches(bt, Len(bt.after))
    /\ bt.out.val.examined = ExitCandle(bt)

====
